---- MODULE Spec2Model ----
(***************************************************************************)
(* A model of the gdb query core: the closure-based transaction helper,    *)
(* the transaction handle, the query-result cache of Model reads and       *)
(* writes, the lazily populated cache of pooled connections, the weighted  *)
(* choice of a node of a group, the configuration registry with the map    *)
(* of DB objects built from it, the calls DoQuery, DoExec, DoPrepare and   *)
(* Begin make to the connection, the SQL text and arguments that          *)
(* handleArguments, formatWhere, Model.Delete and the insert and update    *)
(* calls produce, the mapping of results onto structs and slices, and the  *)
(* accessors of the configuration.                                         *)
(***************************************************************************)
EXTENDS Integers, Sequences, FiniteSets, TLC

VARIABLES
    txPc,           \* position of Core.Transaction: "start", "inF", "done"
    txLog,          \* statements f issued through the handle: [op, link, write]
    pending,        \* writes held by the open transaction (tx.tx)
    store,          \* writes observable in the database
    commitCalls,    \* number of tx.Commit() calls made by Transaction
    rollbackCalls,  \* number of tx.Rollback() calls made by Transaction
    begun,          \* whether Begin returned a handle
    fRan,           \* whether f was invoked
    fResult,        \* how f ended: [kind, err, pval]
    finishErr,      \* what the Commit/Rollback call returned
    ret,            \* the error Transaction returned
    panicOut,       \* whether a panic escaped Transaction
    cache,          \* the query cache of the DB object: key -> entry
    returned,       \* per key, the RowSet handed to the reader that filled it
    now,            \* the clock of the cache
    table,          \* number of visible rows of the table
    last,           \* per goroutine, the Model read or write it is in
    configs,        \* configs.config: group name -> list of nodes
    internalCache,  \* the package-level cache of pools: identity -> pool
    dataMu,         \* the goroutine holding the write lock of internalCache
    pools,          \* the pools Open has returned, in order: pool [id |-> i] is pools[i]
    gPc,            \* per goroutine, its position in getSqlDb
    gCall,          \* per goroutine, the locals of its getSqlDb call
    coreFlags,      \* per Core object, its debug and dry-run flags
    routed,         \* what the latest getConfigNodeByGroup call did
    configsGroup,   \* configs.group: the name of the default group
    rw,             \* the RWMutex of configs: [w, held, readers]
    instances,      \* the registry of DB singletons: group name -> DB object
    instMu,         \* the goroutine holding the write lock of instances
    mut,            \* per mutating goroutine: [pc, op, wrote]
    inst,           \* per goroutine calling Instance: its position and locals
    ver,            \* number of assignments made to the registry
    returnedVer,    \* the latest assignment whose mutation call has returned
    core,           \* the Core statements run on: [DryRun, debug, ctx, timeouts]
    allDryRun,      \* the package flag that sets dry run for all databases
    sent,           \* what the latest DoQuery, DoExec, DoPrepare or Begin did
    sqlIn,          \* the SQL text and the arguments given to formatSql
    sqlOut,         \* what formatSql returned for them
    deleted,        \* what the latest Model.Delete composed
    composed,       \* what the latest composition of SQL text returned
    mapped,         \* what the latest mapping of rows onto a target did
    access          \* the calls of Instance and of the accessors: in progress and returned

txVars == <<txPc, txLog, pending, store, commitCalls, rollbackCalls, begun,
            fRan, fResult, finishErr, ret, panicOut>>

cacheVars == <<cache, returned, now, table, last>>

poolVars == <<configs, internalCache, dataMu, pools, gPc, gCall, coreFlags>>

poolLocal == <<internalCache, dataMu, pools, gPc, gCall, coreFlags>>

routerVars == <<routed>>

configVars == <<configsGroup, rw, instances, instMu, mut, inst, ver,
                returnedVer>>

execVars == <<core, allDryRun, sent>>

sqlVars == <<sqlIn, sqlOut, deleted>>

composeVars == <<composed>>

mapVars == <<mapped>>

accessVars == <<access>>

vars == <<txVars, cacheVars, poolVars, routerVars, configVars, execVars, sqlVars, composeVars, mapVars, accessVars>>

\* what the actions of each part leave alone
txFrame == <<cacheVars, poolVars, routerVars, configVars, execVars, sqlVars, composeVars, mapVars, accessVars>>
cacheFrame == <<txVars, poolVars, routerVars, configVars, execVars, sqlVars, composeVars, mapVars, accessVars>>
poolFrame == <<txVars, cacheVars, routerVars, configVars, execVars, sqlVars, composeVars, mapVars, accessVars>>
routerFrame == <<txVars, cacheVars, poolLocal, configVars, execVars, sqlVars, composeVars, mapVars, accessVars>>
configFrame == <<txVars, cacheVars, poolLocal, routerVars, execVars, sqlVars, composeVars, mapVars, accessVars>>
execFrame == <<txVars, cacheVars, poolVars, routerVars, configVars, sqlVars, composeVars, mapVars, accessVars>>
sqlFrame == <<txVars, cacheVars, poolVars, routerVars, configVars, execVars, composeVars, mapVars, accessVars>>
composeFrame == <<txVars, cacheVars, poolVars, routerVars, configVars, execVars, sqlVars, mapVars, accessVars>>
mapFrame == <<txVars, cacheVars, poolVars, routerVars, configVars, execVars, sqlVars, composeVars, accessVars>>
accessFrame == <<txVars, cacheVars, poolVars, routerVars, execVars, sqlVars, composeVars, mapVars>>

----------------------------------------------------------------------------
(* Bounds *)

MaxStmts == 2
MaxTime == 1
MaxRows == 1
MaxNodes == 2
MaxWrites == 2
MaxArgs == 2
MaxSlice == 2
MaxList == 11
MaxRecords == 2
MaxCalls == 3

----------------------------------------------------------------------------
(* Values *)

Nil == "<nil>"
NilLink == "nil"
TxLink == "tx"
NoWrite == "none"
Writes == {"w1", "w2"}

ErrBegin == "begin failed"
ErrCommit == "commit failed"
ErrRollback == "rollback failed"
FErrors == {"f failed", "f failed again"}

\* values f may hand to panic(); panic(nil) is legal Go
NilVal == [t |-> "nil"]
PanicValues == {NilVal, [t |-> "str", s |-> "boom"], [t |-> "int", n |-> 7]}

NoResult == [kind |-> "none", err |-> Nil, pval |-> NilVal]

----------------------------------------------------------------------------
(* Links: the connection a call chain ends on *)

Master == "master"
Slave == "slave"

DoQuery(link) == link

DoExec(link) == link

DoPrepare(link) == link

DoGetAll(link) ==
    IF link = NilLink THEN DoQuery(Slave) ELSE DoQuery(link)

CoreAll == DoGetAll(NilLink)

CoreOne == CoreAll

CoreStruct == CoreOne

CoreStructs == CoreAll

TXQuery == DoQuery(TxLink)

TXExec == DoExec(TxLink)

TXPrepare == DoPrepare(TxLink)

TXAll == TXQuery

TXOne == TXAll

TXStruct == TXOne

TXStructs == TXAll

TXValue == TXOne

TXCount == TXValue

\* kind is the reflect.Kind of the pointed-to target
TXScan(kind) ==
    CASE kind = "slice"  -> CoreStructs
      [] kind = "struct" -> CoreStruct
      [] OTHER           -> NilLink

\* m.tx of a model made by TX.Table is the handle
TXTable == TxLink

getLink(mtx, master) ==
    IF mtx # NilLink THEN mtx
    ELSE IF master THEN Master ELSE Slave

ReadOps == {"Query", "Prepare", "All", "One", "Struct", "Structs", "Value",
            "Count", "ScanSlice", "ScanStruct", "ModelAll"}
WriteOps == {"Exec", "ModelInsert", "ModelDelete"}
TxOps == ReadOps \cup WriteOps

LinkOfTxOp(op) ==
    CASE op = "Query"       -> TXQuery
      [] op = "Exec"        -> TXExec
      [] op = "Prepare"     -> TXPrepare
      [] op = "All"         -> TXAll
      [] op = "One"         -> TXOne
      [] op = "Struct"      -> TXStruct
      [] op = "Structs"     -> TXStructs
      [] op = "Value"       -> TXValue
      [] op = "Count"       -> TXCount
      [] op = "ScanSlice"   -> TXScan("slice")
      [] op = "ScanStruct"  -> TXScan("struct")
      [] op = "ModelAll"    -> DoGetAll(getLink(TXTable, FALSE))
      [] op = "ModelInsert" -> DoExec(getLink(TXTable, TRUE))
      [] op = "ModelDelete" -> DoExec(getLink(TXTable, TRUE))

----------------------------------------------------------------------------
(* Core.Transaction *)

\* fmt.Errorf("%v", e)
Errorf(e) ==
    CASE e.t = "str" -> e.s
      [] e.t = "int" -> ToString(e.n)
      [] OTHER       -> "<nil>"

\* recover(): the value given to panic, nil when not panicking
Recover(panicking, pval) == IF panicking THEN pval ELSE NilVal

\* the first half of the deferred function
AfterRecover(err, panicking, pval) ==
    IF err = Nil
    THEN IF Recover(panicking, pval) # NilVal
         THEN Errorf(Recover(panicking, pval))
         ELSE err
    ELSE err

\* recover() is called only when err == nil; calling it stops the panic
Recovered(err, panicking) == panicking /\ err = Nil

UseRollbackAlways(err) == TRUE

\* the deferred function rolls back iff err != nil, else commits
UseRollback(err) == err # Nil

FinalErrOnlyFinish(err, e) == e

FinalErrKeep(err, e) == err

\* if e := tx.Rollback(); e != nil { err = e } (and the same for Commit)
FinalErr(err, e) == IF e # Nil THEN e ELSE err

\* f is called only when Begin returned no error
RunsF(beginErr) == beginErr = Nil

TxInit ==
    /\ txPc = "start"
    /\ txLog = <<>>
    /\ pending = {}
    /\ store = {}
    /\ commitCalls = 0
    /\ rollbackCalls = 0
    /\ begun = FALSE
    /\ fRan = FALSE
    /\ fResult = NoResult
    /\ finishErr = Nil
    /\ ret = Nil
    /\ panicOut = FALSE

\* tx, err = c.DB.Begin(); on error Transaction returns it at once
Begin(ok) ==
    /\ txPc = "start"
    /\ begun' = ok
    /\ LET err == IF ok THEN Nil ELSE ErrBegin
       IN IF RunsF(err)
          THEN /\ txPc' = "inF"
               /\ fRan' = TRUE
               /\ ret' = ret
          ELSE /\ txPc' = "done"
               /\ fRan' = fRan
               /\ ret' = err
    /\ UNCHANGED <<txLog, pending, store, commitCalls, rollbackCalls, fResult,
                   finishErr, panicOut, txFrame>>

\* one statement f issues through the handle
FStatement(op, w) ==
    /\ txPc = "inF"
    /\ Len(txLog) < MaxStmts
    /\ LET link == LinkOfTxOp(op)
           wr == IF op \in WriteOps THEN w ELSE NoWrite
       IN /\ txLog' = Append(txLog, [op |-> op, link |-> link, write |-> wr])
          /\ IF wr = NoWrite
             THEN UNCHANGED <<pending, store>>
             ELSE IF link = TxLink
                  THEN /\ pending' = pending \cup {wr}
                       /\ store' = store
                  ELSE /\ store' = store \cup {wr}
                       /\ pending' = pending
    /\ UNCHANGED <<txPc, commitCalls, rollbackCalls, begun, fRan, fResult,
                   finishErr, ret, panicOut, txFrame>>

\* f ends (returns or panics) and the deferred function runs;
\* e is what tx.Rollback() or tx.Commit() returns
FEnds(res, e) ==
    /\ txPc = "inF"
    /\ LET panicking == res.kind = "panic"
           err0 == IF panicking THEN Nil ELSE res.err
           err1 == AfterRecover(err0, panicking, res.pval)
       IN /\ fResult' = res
          /\ finishErr' = e
          /\ panicOut' = (panicking /\ ~Recovered(err0, panicking))
          /\ IF UseRollback(err1)
             THEN /\ e \in {Nil, ErrRollback}
                  /\ rollbackCalls' = rollbackCalls + 1
                  /\ commitCalls' = commitCalls
                  /\ store' = store
             ELSE /\ e \in {Nil, ErrCommit}
                  /\ commitCalls' = commitCalls + 1
                  /\ rollbackCalls' = rollbackCalls
                  /\ store' = IF e = Nil THEN store \cup pending ELSE store
          /\ pending' = {}
          /\ ret' = FinalErr(err1, e)
          /\ txPc' = "done"
    /\ UNCHANGED <<txLog, begun, fRan, txFrame>>

FResults ==
    {[kind |-> "return", err |-> x, pval |-> NilVal] : x \in FErrors \cup {Nil}}
    \cup {[kind |-> "panic", err |-> Nil, pval |-> v] : v \in PanicValues}

TxNext ==
    \/ \E ok \in BOOLEAN : Begin(ok)
    \/ \E op \in TxOps, w \in Writes : FStatement(op, w)
    \/ \E res \in FResults, e \in {Nil, ErrRollback, ErrCommit} : FEnds(res, e)

----------------------------------------------------------------------------
(* The query cache: Model.Cache, doGetAllBySql, checkAndRemoveCache *)

Durations == {-1, 0, 1}
CacheNames == {"", "K"}
QueryArgs == {0}
Sql == "SELECT * FROM t WHERE id>?"

ErrQuery == "query failed"
ErrExec == "exec failed"
ErrEmptyData == "inserting into table with empty data"
ErrInvalidData == "inserting into table with invalid data type"
ErrNoWhere == "there should be WHERE condition statement for DELETE operation"

NoEntry == [set |-> FALSE]
NoRows == <<>>

\* gconv.String(args) of a one-element argument list
ArgsString(a) == "[" \o ToString(a) \o "]"

DerivedKey(sql, a) == sql \o ", @PARAMS:" \o ArgsString(a)

AllKeys == (CacheNames \ {""}) \cup {DerivedKey(Sql, a) : a \in QueryArgs}

\* the rows the statement selects: ids above the argument, in order
QueryRows(a, n) ==
    LET F[i \in 0..n] ==
            IF i = 0 THEN <<>>
            ELSE IF i > a THEN Append(F[i - 1], i) ELSE F[i - 1]
    IN F[n]

\* a model as Core.Table / TX.Table make it
Table(tx) ==
    [tx |-> tx, cacheEnabled |-> FALSE, cacheDuration |-> 0, cacheName |-> "",
     unscoped |-> FALSE]

\* Model.Cache(duration, name...); hasName is len(name) > 0
Cache(m, duration, hasName, name) ==
    [m EXCEPT !.cacheDuration = duration,
              !.cacheName = IF hasName THEN name ELSE m.cacheName,
              !.cacheEnabled = TRUE]

Unscoped(m) == [m EXCEPT !.unscoped = TRUE]

Models ==
    LET base == {Table(tx) : tx \in {NilLink, TxLink}}
        scoped == base \cup {Cache(m, d, n # "", n) :
                                m \in base, d \in Durations, n \in CacheNames}
    IN scoped \cup {Unscoped(m) : m \in scoped}

\* the cache's entry for duration d written at time t (0 never expires)
NoExpiry == MaxTime + 2

getInternalExpire(d, t) == IF d = 0 THEN NoExpiry ELSE t + d

CacheSet(c, key, val, d, t) ==
    [c EXCEPT ![key] = [set |-> TRUE, val |-> val, exp |-> getInternalExpire(d, t)]]

CacheRemove(c, key) == [c EXCEPT ![key] = NoEntry]

IsLive(entry, t) == entry.set /\ entry.exp > t

CacheHitNonEmpty(c, key, t) == IsLive(c[key], t) /\ c[key].val # NoRows

\* cacheObj.GetVar(key) followed by !v.IsNil()
CacheHit(c, key, t) == IsLive(c[key], t)

UseCacheAlways(m) == m.cacheEnabled

\* if m.cacheEnabled && m.tx == nil
UseCache(m) == m.cacheEnabled /\ m.tx = NilLink

CacheKey(m, sql, a) ==
    IF ~UseCache(m) THEN ""
    ELSE IF m.cacheName = "" THEN DerivedKey(sql, a) ELSE m.cacheName

\* the tail of doGetAllBySql: cache the result
CacheAfterRead(c, key, result, err, d, t) ==
    IF key # "" /\ err = Nil
    THEN IF d < 0 THEN CacheRemove(c, key) ELSE CacheSet(c, key, result, d, t)
    ELSE c

ShouldRemoveAnyDuration(m) == m.cacheEnabled /\ m.cacheName # ""

\* the condition of checkAndRemoveCache
ShouldRemove(m) == m.cacheEnabled /\ m.cacheDuration < 0 /\ m.cacheName # ""

checkAndRemoveCache(c, m) ==
    IF ShouldRemove(m) THEN CacheRemove(c, m.cacheName) ELSE c

AfterWriteAlways(c, m, err) == checkAndRemoveCache(c, m)

\* the deferred function of doInsertWithOption and of Delete
AfterWrite(c, m, err) == IF err = Nil THEN checkAndRemoveCache(c, m) ELSE c

\* the goroutines that read and write through models of one DB object
Readers == {"q1", "q2"}

\* the record of an operation of a goroutine: its position, the model it runs
\* on, the argument of its query, the cache key it uses, whether the entry
\* it works with was live (for a read outside a transaction with Cache: the
\* entry of its key when it looked; for a write: the entry of its cache name
\* when its deferred function ran), what it returns, and the statement it
\* sent and the connection it sent it on
NoOp ==
    [kind |-> "none", pc |-> "idle", tx |-> FALSE, enabled |-> FALSE, dur |-> 0,
     name |-> "", a |-> 0, key |-> "", had |-> FALSE,
     result |-> NoRows, err |-> Nil, stmt |-> "none", link |-> "none"]

OpRecord(kind, pc, m, key, had, result, err) ==
    [NoOp EXCEPT !.kind = kind, !.pc = pc, !.tx = m.tx # NilLink,
        !.enabled = m.cacheEnabled, !.dur = m.cacheDuration, !.name = m.cacheName,
        !.key = key, !.had = had, !.result = result, !.err = err]

\* the model of an operation in progress
ModelOf(op) ==
    [tx |-> IF op.tx THEN TxLink ELSE NilLink, cacheEnabled |-> op.enabled,
     cacheDuration |-> op.dur, cacheName |-> op.name, unscoped |-> FALSE]

CacheInit ==
    /\ cache = [k \in AllKeys |-> NoEntry]
    /\ returned = [k \in AllKeys |-> NoRows]
    /\ now = 0
    /\ table \in 0..MaxRows
    /\ last = [g \in Readers |-> NoOp]

CacheIdle ==
    /\ cache = [k \in AllKeys |-> NoEntry]
    /\ returned = [k \in AllKeys |-> NoRows]
    /\ now = 0
    /\ table = 0
    /\ last = [g \in Readers |-> NoOp]

\* per key, the rows of the reader that filled the entry, once the cache
\* went from c to d while a goroutine held result
Handed(c, d, result) ==
    [k \in AllKeys |->
        IF d[k] = c[k] THEN returned[k]
        ELSE IF d[k].set THEN result ELSE NoRows]

\* time passes at any point of an operation; the cache drops what has expired
Tick ==
    /\ now < MaxTime
    /\ now' = now + 1
    /\ cache' = [k \in AllKeys |->
                    IF IsLive(cache[k], now + 1) THEN cache[k] ELSE NoEntry]
    /\ returned' = [k \in AllKeys |->
                    IF IsLive(cache[k], now + 1) THEN returned[k] ELSE NoRows]
    /\ UNCHANGED <<table, last, cacheFrame>>

\* Model.doGetAllBySql(sql, args...), up to the early return: the cache key
\* and cacheObj.GetVar
doGetAllBySql(g, m, a) ==
    /\ last[g] = NoOp
    /\ LET key == CacheKey(m, Sql, a)
           hit == key # "" /\ CacheHit(cache, key, now)
           target == IF m.cacheName = "" THEN DerivedKey(Sql, a) ELSE m.cacheName
       IN last' = [last EXCEPT ![g] =
                     [OpRecord("read", IF hit THEN "done" ELSE "query", m, key,
                               m.cacheEnabled /\ m.tx = NilLink
                                  /\ IsLive(cache[target], now),
                               IF hit THEN cache[key].val ELSE NoRows, Nil)
                      EXCEPT !.a = a]]
    /\ UNCHANGED <<cache, returned, now, table, cacheFrame>>

\* m.db.DoGetAll(m.getLink(false), sql, args...); ok is whether the query
\* succeeds; with no cache key or with an error the read returns
doGetAllBySqlQuery(g, ok) ==
    /\ last[g].kind = "read"
    /\ last[g].pc = "query"
    /\ last' = [last EXCEPT
                   ![g].pc = IF last[g].key # "" /\ ok THEN "store" ELSE "done",
                   ![g].result = IF ok THEN QueryRows(last[g].a, table) ELSE NoRows,
                   ![g].err = IF ok THEN Nil ELSE ErrQuery,
                   ![g].stmt = "SELECT",
                   ![g].link = DoGetAll(getLink(ModelOf(last[g]).tx, FALSE))]
    /\ UNCHANGED <<cache, returned, now, table, cacheFrame>>

\* the tail of doGetAllBySql: cacheObj.Remove or cacheObj.Set, and the return
doGetAllBySqlStore(g) ==
    /\ last[g].kind = "read"
    /\ last[g].pc = "store"
    /\ cache' = CacheAfterRead(cache, last[g].key, last[g].result, last[g].err,
                               last[g].dur, now)
    /\ returned' = Handed(cache, cache', last[g].result)
    /\ last' = [last EXCEPT ![g].pc = "done"]
    /\ UNCHANGED <<now, table, cacheFrame>>

InsertOptions == {"insert", "replace", "save", "ignore"}
DataKinds == {"nil", "map", "list", "other"}
Scoped == {m \in Models : ~m.unscoped}

\* whether the entry of the model's cache name is live
HasNamed(c, m, t) == m.cacheName # "" /\ IsLive(c[m.cacheName], t)

\* Model.doInsertWithOption(option), up to the return of DoInsert or of
\* DoBatchInsert on m.getLink(true): the deferred function is registered, the
\* data looked at and the statement executed; ok is whether it succeeds
doInsertWithOption(g, m, option, data, ok) ==
    /\ last[g] = NoOp
    /\ data \in {"map", "list"} \/ ok
    /\ LET issued == data \in {"map", "list"}
           err == CASE data = "nil"   -> ErrEmptyData
                    [] data = "other" -> ErrInvalidData
                    [] OTHER          -> IF ok THEN Nil ELSE ErrExec
       IN /\ table' = IF err = Nil /\ table < MaxRows THEN table + 1 ELSE table
          /\ last' = [last EXCEPT ![g] =
                        [OpRecord("insert", "deferred", m, "", FALSE, NoRows, err)
                         EXCEPT !.stmt = IF issued THEN "INSERT" ELSE "none",
                                !.link = IF issued THEN DoExec(getLink(m.tx, TRUE))
                                         ELSE "none"]]
    /\ UNCHANGED <<cache, returned, now, cacheFrame>>

\* the deferred function of doInsertWithOption, and the return
doInsertWithOptionDeferred(g) ==
    /\ last[g].kind = "insert"
    /\ last[g].pc = "deferred"
    /\ cache' = AfterWrite(cache, ModelOf(last[g]), last[g].err)
    /\ returned' = Handed(cache, cache', NoRows)
    /\ last' = [last EXCEPT ![g].pc = "done",
                   ![g].had = HasNamed(cache, ModelOf(last[g]), now)]
    /\ UNCHANGED <<now, table, cacheFrame>>

\* Model.Delete(), up to the return of DoUpdate or of DoDelete on
\* m.getLink(true): the deferred function is registered, the condition
\* composed and the statement executed; softField is whether the table has a
\* soft-delete column, hasWhere whether the condition holds a WHERE clause,
\* ok whether the statement succeeds
Delete(g, m, softField, hasWhere, ok) ==
    /\ last[g] = NoOp
    /\ LET soft == ~m.unscoped /\ softField
           issued == soft \/ hasWhere
           err == IF issued THEN (IF ok THEN Nil ELSE ErrExec) ELSE ErrNoWhere
       IN /\ issued \/ ok
          /\ table' = IF err # Nil THEN table
                      ELSE IF ~hasWhere THEN 0
                      ELSE IF table > 0 THEN table - 1 ELSE table
          /\ last' = [last EXCEPT ![g] =
                        [OpRecord("delete", "deferred", m, "", FALSE, NoRows, err)
                         EXCEPT !.stmt = IF ~issued THEN "none"
                                         ELSE IF soft THEN "UPDATE" ELSE "DELETE",
                                !.link = IF issued THEN DoExec(getLink(m.tx, TRUE))
                                         ELSE "none"]]
    /\ UNCHANGED <<cache, returned, now, cacheFrame>>

\* the deferred function of Delete, and the return
DeleteDeferred(g) ==
    /\ last[g].kind = "delete"
    /\ last[g].pc = "deferred"
    /\ cache' = AfterWrite(cache, ModelOf(last[g]), last[g].err)
    /\ returned' = Handed(cache, cache', NoRows)
    /\ last' = [last EXCEPT ![g].pc = "done",
                   ![g].had = HasNamed(cache, ModelOf(last[g]), now)]
    /\ UNCHANGED <<now, table, cacheFrame>>

\* the caller takes the result; its next operation starts after that
Returned(g) ==
    /\ last[g].pc = "done"
    /\ last' = [last EXCEPT ![g] = NoOp]
    /\ UNCHANGED <<cache, returned, now, table, cacheFrame>>

\* the models and the data of a goroutine: the first one uses them all, the
\* other one fills the entry K with its reads and removes it with its inserts
\* of a map
ReadModels(g) ==
    IF g = "q1" THEN Scoped
    ELSE {Cache(Table(NilLink), 1, TRUE, "K")}

InsertModels(g) ==
    IF g = "q1" THEN Scoped
    ELSE {Cache(Table(NilLink), 0 - 1, TRUE, "K")}

InsertData(g) == IF g = "q1" THEN DataKinds ELSE {"map"}

DeleteModels(g) == IF g = "q1" THEN Models ELSE {}

CacheNext ==
    \/ Tick
    \/ \E g \in Readers : Returned(g)
    \/ \E g \in Readers, a \in QueryArgs : \E m \in ReadModels(g) :
          doGetAllBySql(g, m, a)
    \/ \E g \in Readers, ok \in BOOLEAN : doGetAllBySqlQuery(g, ok)
    \/ \E g \in Readers : doGetAllBySqlStore(g)
    \/ \E g \in Readers, o \in InsertOptions, ok \in BOOLEAN :
          \E m \in InsertModels(g), d \in InsertData(g) :
              doInsertWithOption(g, m, o, d, ok)
    \/ \E g \in Readers : doInsertWithOptionDeferred(g)
    \/ \E g \in Readers, sf \in BOOLEAN, hw \in BOOLEAN, ok \in BOOLEAN :
          \E m \in DeleteModels(g) : Delete(g, m, sf, hw, ok)
    \/ \E g \in Readers : DeleteDeferred(g)

----------------------------------------------------------------------------
(* The router and the cache of pooled connections: getConfigNodeByGroup,   *)
(* getConfigNodeByWeight, ConfigNode.String, Core.getSqlDb                 *)

Goroutines == {"g1", "g2"}
Cores == {"c1", "c2"}
DefaultGroup == "default"

ErrNoMaster == "at least one master node configuration's need to make sense"
ErrEmptyConfig == "empty database configuration for item name"
ErrOpen == "open failed"
ErrNilNode == "invalid memory address or nil pointer dereference"

NilNode == [nil |-> TRUE]
NoPool == [id |-> 0]

defaultMaxIdleConnCount == 10
defaultMaxOpenConnCount == 100
Second == 1000000000
\* a duration is n * unit nanoseconds
defaultMaxConnLifeTime == [n |-> 30, unit |-> Second]

ConfigNode(name, role, weight, debug, dryRun) ==
    [Host |-> "127.0.0.1", Port |-> "3306", User |-> "root", Name |-> name,
     Type |-> "mysql", Role |-> role, Debug |-> debug, DryRun |-> dryRun,
     Weight |-> weight, Charset |-> "", LinkInfo |-> "",
     MaxIdleConnCount |-> 0, MaxOpenConnCount |-> 0, MaxConnLifetime |-> 0]

NodeNames == {"a", "a,mysql"}
NodeRoles == {"master", "slave", "mysql,slave"}
NodeWeights == {0, 1}
NodeFlags == {<<FALSE, FALSE>>, <<TRUE, TRUE>>}

ConfigNodes ==
    {ConfigNode(n, r, w, f[1], f[2]) :
        n \in NodeNames, r \in NodeRoles, w \in NodeWeights, f \in NodeFlags}

ConfigGroups ==
    UNION {[1..k -> ConfigNodes] : k \in 1..MaxNodes}

\* fmt's %v of a bool
BoolString(b) == IF b THEN "true" ELSE "false"

\* ConfigNode.String
String(node) ==
    node.User \o "@" \o node.Host \o ":" \o node.Port \o "," \o node.Name
    \o "," \o node.Type \o "," \o node.Role \o "," \o node.Charset
    \o "," \o BoolString(node.Debug)
    \o "," \o ToString(node.MaxIdleConnCount)
    \o "-" \o ToString(node.MaxOpenConnCount)
    \o "-" \o ToString(node.MaxConnLifetime)
    \o "#" \o node.LinkInfo

\* the sum of Weight * 100 over the list
TotalWeight(cg) ==
    LET F[i \in 0..Len(cg)] ==
            IF i = 0 THEN 0 ELSE F[i - 1] + cg[i].Weight * 100
    IN F[Len(cg)]

\* the list as the selection leaves it: all weights 1 when the total is 0
DefaultWeights(cg) ==
    IF TotalWeight(cg) = 0
    THEN [i \in 1..Len(cg) |-> [cg[i] EXCEPT !.Weight = 1]]
    ELSE cg

\* the values grand.N(0, total-1) can return
\* (N(min, max) is min when min >= max)
Draws(cg) ==
    IF Len(cg) < 2 THEN {0}
    ELSE LET total == TotalWeight(DefaultWeights(cg))
         IN IF 0 >= total - 1 THEN {0} ELSE 0..(total - 1)

InRangeClosed(r, min, max) == r > min /\ r <= max

\* if r >= min && r < max
InRange(r, min, max) == r >= min /\ r < max

\* the position in cg of the node getConfigNodeByWeight returns for the
\* draw r, 0 when it returns nil
WeightIndex(cg, r) ==
    IF Len(cg) < 2 THEN 1
    ELSE LET w == DefaultWeights(cg)
             min(i) == TotalWeight(SubSeq(w, 1, i - 1))
             max(i) == min(i) + w[i].Weight * 100
             found == {i \in 1..Len(w) : InRange(r, min(i), max(i))}
         IN IF found = {} THEN 0
            ELSE CHOOSE i \in found : \A j \in found : i <= j

\* getConfigNodeByWeight with r the random number drawn
getConfigNodeByWeight(cg, r) ==
    IF Len(cg) < 2 THEN cg[1]
    ELSE IF WeightIndex(cg, r) = 0 THEN NilNode
    ELSE DefaultWeights(cg)[WeightIndex(cg, r)]

IsSlave(node) == node.Role = "slave"
IsMaster(node) == node.Role # "slave"

\* the list getConfigNodeByGroup hands to getConfigNodeByWeight: copies of
\* the master nodes, or of the slave nodes (of the masters when there are none)
CandidateList(list, master) ==
    LET masterList == SelectSeq(list, IsMaster)
        slaveList == SelectSeq(list, IsSlave)
    IN IF master \/ Len(slaveList) < 1 THEN masterList ELSE slaveList

\* getConfigNodeByGroup with r the random number drawn
getConfigNodeByGroup(config, group, master, r) ==
    IF group \in DOMAIN config
    THEN LET list == config[group]
             masterList == SelectSeq(list, IsMaster)
             slaveList0 == SelectSeq(list, IsSlave)
             slaveList == IF Len(slaveList0) < 1 THEN masterList ELSE slaveList0
         IN IF Len(masterList) < 1
            THEN [node |-> NilNode, err |-> ErrNoMaster]
            ELSE [node |-> getConfigNodeByWeight(
                              IF master THEN masterList ELSE slaveList, r),
                  err |-> Nil]
    ELSE [node |-> NilNode, err |-> ErrEmptyConfig]

\* the random numbers the selection for the group can draw
GroupDraws(config, group, master) ==
    IF group \notin DOMAIN config THEN {0}
    ELSE LET masterList == SelectSeq(config[group], IsMaster)
             slaveList0 == SelectSeq(config[group], IsSlave)
             slaveList == IF Len(slaveList0) < 1 THEN masterList ELSE slaveList0
         IN IF Len(masterList) < 1 THEN {0}
            ELSE Draws(IF master THEN masterList ELSE slaveList)

\* what getConfigNodeByGroup can return for the group, over all draws
Selections(config, group, master) ==
    {getConfigNodeByGroup(config, group, master, r) :
        r \in GroupDraws(config, group, master)}

\* the Core object each goroutine works on, and the schemas it asks for
CoreOf(g) == IF g = "g1" THEN "c1" ELSE "c2"
Schemas == {"", "b"}

\* c.config of a Core object: the pool bounds it was built with
CoreConfig(c) ==
    IF c = "c1"
    THEN [MaxIdleConnCount |-> 0, MaxOpenConnCount |-> 0, MaxConnLifetime |-> 0]
    ELSE [MaxIdleConnCount |-> 5, MaxOpenConnCount |-> 7, MaxConnLifetime |-> 2]

\* the pool Open returns for the node, after the Set... calls of the closure
NewPool(node, cfg) ==
    [name |-> node.Name,
     identity |-> String(node),
     maxIdle |-> IF cfg.MaxIdleConnCount > 0 THEN cfg.MaxIdleConnCount
                 ELSE defaultMaxIdleConnCount,
     maxOpen |-> IF cfg.MaxOpenConnCount > 0 THEN cfg.MaxOpenConnCount
                 ELSE defaultMaxOpenConnCount,
     lifetime |-> IF cfg.MaxConnLifetime > 0
                  THEN IF cfg.MaxConnLifetime > Second
                       THEN [n |-> cfg.MaxConnLifetime, unit |-> 1]
                       ELSE [n |-> cfg.MaxConnLifetime, unit |-> Second]
                  ELSE defaultMaxConnLifeTime]

\* the node getSqlDb resolves: default charset, then the schema override
ResolveNode(node, coreSchema, schema) ==
    LET n1 == IF node.Charset = "" THEN [node EXCEPT !.Charset = "utf8"] ELSE node
        nodeSchema == IF schema # "" THEN schema ELSE coreSchema
    IN IF nodeSchema # "" THEN [n1 EXCEPT !.Name = nodeSchema] ELSE n1

NoCall ==
    [core |-> "", node |-> NilNode, key |-> "", v |-> NoPool, sqlDb |-> NoPool,
     err |-> Nil]

PoolInit ==
    /\ configs \in {[g \in {DefaultGroup} |-> cg] : cg \in ConfigGroups}
    /\ internalCache = <<>>
    /\ dataMu = ""
    /\ pools = <<>>
    /\ gPc = [g \in Goroutines |-> "idle"]
    /\ gCall = [g \in Goroutines |-> NoCall]
    /\ coreFlags = [c \in Cores |-> [debug |-> FALSE, dryRun |-> FALSE]]

PoolIdle ==
    /\ configs = [g \in {DefaultGroup} |-> <<ConfigNode("a", "master", 0, FALSE, FALSE)>>]
    /\ internalCache = <<>>
    /\ dataMu = ""
    /\ pools = <<>>
    /\ gPc = [g \in Goroutines |-> "idle"]
    /\ gCall = [g \in Goroutines |-> NoCall]
    /\ coreFlags = [c \in Cores |-> [debug |-> FALSE, dryRun |-> FALSE]]

\* getSqlDb up to the call of GetOrSetFuncLock: the node and its identity
getSqlDb(g, c, master, schema) ==
    /\ gPc[g] = "idle"
    /\ \E res \in Selections(configs, DefaultGroup, master) :
          IF res.err # Nil
          THEN /\ gCall' = [gCall EXCEPT ![g] = [NoCall EXCEPT !.core = c,
                                                              !.err = res.err]]
               /\ gPc' = [gPc EXCEPT ![g] = "done"]
          ELSE IF res.node = NilNode
          THEN /\ gCall' = [gCall EXCEPT ![g] = [NoCall EXCEPT !.core = c,
                                                              !.err = ErrNilNode]]
               /\ gPc' = [gPc EXCEPT ![g] = "done"]
          ELSE LET node == ResolveNode(res.node, "", schema)
               IN /\ gCall' = [gCall EXCEPT ![g] =
                                 [NoCall EXCEPT !.core = c, !.node = node,
                                                !.key = String(node)]]
                  /\ gPc' = [gPc EXCEPT ![g] = "get"]
    /\ UNCHANGED <<configs, internalCache, dataMu, pools, coreFlags,
                   poolFrame>>

\* GetOrSetFuncLock: the first lookup, under the read lock
CacheGet(g) ==
    /\ gPc[g] = "get"
    /\ dataMu = ""
    /\ IF gCall[g].key \in DOMAIN internalCache
       THEN /\ gCall' = [gCall EXCEPT ![g].v = internalCache[gCall[g].key]]
            /\ gPc' = [gPc EXCEPT ![g] = "return"]
       ELSE /\ gCall' = gCall
            /\ gPc' = [gPc EXCEPT ![g] = "lock"]
    /\ UNCHANGED <<configs, internalCache, dataMu, pools, coreFlags,
                   poolFrame>>

\* doSetWithLockCheck takes the write lock
CacheLock(g) ==
    /\ gPc[g] = "lock"
    /\ dataMu = ""
    /\ dataMu' = g
    /\ gPc' = [gPc EXCEPT ![g] = "locked"]
    /\ UNCHANGED <<configs, internalCache, pools, gCall, coreFlags,
                   poolFrame>>

\* the second lookup, under the write lock
Recheck(c, key) == key \in DOMAIN c

\* doSetWithLockCheck under the lock: look again, else run the closure
\* (Open the pool, set its bounds) and store what it returns
doSetWithLockCheck(g, ok) ==
    /\ gPc[g] = "locked"
    /\ dataMu = g
    /\ LET call == gCall[g]
           pool == [id |-> Len(pools) + 1]
       IN IF Recheck(internalCache, call.key)
          THEN /\ ok
               /\ gCall' = [gCall EXCEPT ![g].v = internalCache[call.key]]
               /\ UNCHANGED <<pools, internalCache>>
          ELSE IF ok
          THEN /\ pools' = Append(pools, NewPool(call.node, CoreConfig(call.core)))
               /\ internalCache' =
                     [k \in DOMAIN internalCache \cup {call.key} |->
                         IF k = call.key THEN pool ELSE internalCache[k]]
               /\ gCall' = [gCall EXCEPT ![g].v = pool, ![g].sqlDb = pool]
          ELSE /\ gCall' = [gCall EXCEPT ![g].err = ErrOpen]
               /\ UNCHANGED <<pools, internalCache>>
    /\ dataMu' = ""
    /\ gPc' = [gPc EXCEPT ![g] = "return"]
    /\ UNCHANGED <<configs, coreFlags, poolFrame>>

\* the tail of getSqlDb: take the cached pool, copy the node's debug flags
getSqlDbReturn(g) ==
    /\ gPc[g] = "return"
    /\ LET call == gCall[g]
       IN /\ gCall' = [gCall EXCEPT ![g].sqlDb =
                          IF call.v # NoPool /\ call.sqlDb = NoPool
                          THEN call.v ELSE call.sqlDb]
          /\ coreFlags' = IF call.node.Debug
                          THEN [coreFlags EXCEPT ![call.core] =
                                   [debug |-> TRUE, dryRun |-> call.node.DryRun]]
                          ELSE coreFlags
    /\ gPc' = [gPc EXCEPT ![g] = "done"]
    /\ UNCHANGED <<configs, internalCache, dataMu, pools, poolFrame>>

PoolNext ==
    \/ \E g \in Goroutines, master \in BOOLEAN, schema \in Schemas :
          getSqlDb(g, CoreOf(g), master, schema)
    \/ \E g \in Goroutines : CacheGet(g)
    \/ \E g \in Goroutines : CacheLock(g)
    \/ \E g \in Goroutines, ok \in BOOLEAN : doSetWithLockCheck(g, ok)
    \/ \E g \in Goroutines : getSqlDbReturn(g)

----------------------------------------------------------------------------
(* The router on its own: getConfigNodeByGroup over groups of nodes of any  *)
(* role and weight                                                         *)

SpareGroup == "spare"
RouterWeights == {-1, 0, 1, 3}
RouterRoles == {"master", "slave"}

RouterNodes ==
    {ConfigNode("a", r, w, FALSE, FALSE) : r \in RouterRoles, w \in RouterWeights}

RouterGroups == UNION {[1..k -> RouterNodes] : k \in 1..MaxNodes}

NoRoute ==
    [kind |-> "none", group |-> "", master |-> FALSE, r |-> 0, cands |-> <<>>,
     index |-> 0, node |-> NilNode, err |-> Nil]

RegistryAfterSelectShared(config, group, master) ==
    IF group \notin DOMAIN config THEN config
    ELSE LET list == config[group]
             cg == CandidateList(list, master)
             isCand(n) == IF master \/ Len(SelectSeq(list, IsSlave)) < 1
                          THEN IsMaster(n) ELSE IsSlave(n)
         IN IF Len(SelectSeq(list, IsMaster)) < 1 \/ Len(cg) < 2
               \/ TotalWeight(cg) # 0
            THEN config
            ELSE [config EXCEPT ![group] =
                    [i \in 1..Len(list) |->
                        IF isCand(list[i]) THEN [list[i] EXCEPT !.Weight = 1]
                        ELSE list[i]]]

\* configs.config after a getConfigNodeByGroup call: the candidate lists
\* are built by append from the stored nodes, so the stored nodes stay
RegistryAfterSelect(config, group, master) == config

RouterInit ==
    /\ configs \in {[g \in {DefaultGroup} |-> cg] : cg \in RouterGroups}
    /\ internalCache = <<>>
    /\ dataMu = ""
    /\ pools = <<>>
    /\ gPc = [g \in Goroutines |-> "idle"]
    /\ gCall = [g \in Goroutines |-> NoCall]
    /\ coreFlags = [c \in Cores |-> [debug |-> FALSE, dryRun |-> FALSE]]
    /\ routed = NoRoute

RouterIdle == routed = NoRoute

\* every number a selection over MaxNodes nodes can draw
AllDraws == 0..(100 * 3 * MaxNodes - 1)

\* one call getConfigNodeByGroup(group, master) that draws r
SelectNode(group, master, r) ==
    /\ routed = NoRoute
    /\ r \in GroupDraws(configs, group, master)
    /\ LET res == getConfigNodeByGroup(configs, group, master, r)
           known == group \in DOMAIN configs
           cg == IF known THEN CandidateList(configs[group], master) ELSE <<>>
       IN routed' = [kind |-> "select", group |-> group, master |-> master,
                     r |-> r, cands |-> cg,
                     index |-> IF res.err = Nil THEN WeightIndex(cg, r) ELSE 0,
                     node |-> res.node, err |-> res.err]
    /\ configs' = RegistryAfterSelect(configs, group, master)
    /\ UNCHANGED routerFrame

\* the caller takes the node; the next call starts after that
SelectReturned ==
    /\ routed # NoRoute
    /\ routed' = NoRoute
    /\ UNCHANGED <<configs, routerFrame>>

RouterNext ==
    \/ \E group \in {DefaultGroup, SpareGroup}, master \in BOOLEAN, r \in AllDraws :
          SelectNode(group, master, r)
    \/ SelectReturned

----------------------------------------------------------------------------
(* The configuration registry and the registry of DB singletons *)

Mutators == {"m1", "m2"}
Callers == {"i1", "i2"}

ErrEmpty == "empty database configuration"
ErrUnsupported == "unsupported database type"

ErrNotFound(groupName) ==
    "database configuration node \"" \o groupName \o "\" is not found"

driverMap == {"mysql", "mssql", "pgsql", "oracle", "sqlite"}

NilDB == [nil |-> TRUE]

NodeA == ConfigNode("a", "master", 1, FALSE, FALSE)
NodeB == ConfigNode("b", "master", 1, FALSE, FALSE)
NodeS == ConfigNode("s", "slave", 1, FALSE, FALSE)

\* the arguments of the mutation calls
MutationOps ==
    {[kind |-> "SetConfig", config |-> c, group |-> "", nodes |-> <<>>, name |-> ""] :
        c \in {[g \in {DefaultGroup} |-> <<NodeB>>]}}
    \cup {[kind |-> "SetConfigGroup", config |-> <<>>, group |-> g, nodes |-> n, name |-> ""] :
        g \in {DefaultGroup}, n \in {<<NodeS>>}}
    \cup {[kind |-> "AddConfigNode", config |-> <<>>, group |-> g, nodes |-> <<NodeB>>, name |-> ""] :
        g \in {SpareGroup}}
    \cup {[kind |-> "SetDefaultGroup", config |-> <<>>, group |-> "", nodes |-> <<>>, name |-> n] :
        n \in {SpareGroup}}

NoOpCall == [kind |-> "none", config |-> <<>>, group |-> "", nodes |-> <<>>, name |-> ""]

\* configs.config after the assignment of the mutation
WriteConfig(config, op) ==
    CASE op.kind = "SetConfig" -> op.config
      [] op.kind = "SetConfigGroup" ->
            [g \in DOMAIN config \cup {op.group} |->
                IF g = op.group THEN op.nodes ELSE config[g]]
      [] op.kind = "AddConfigNode" ->
            [g \in DOMAIN config \cup {op.group} |->
                IF g = op.group
                THEN (IF g \in DOMAIN config THEN config[g] ELSE <<>>) \o op.nodes
                ELSE config[g]]
      [] OTHER -> config

\* configs.group after the assignment of the mutation
WriteGroup(group, op) ==
    IF op.kind = "SetDefaultGroup" THEN op.name ELSE group

\* the field of configs the mutation assigns
WrittenField(op) ==
    IF op.kind = "SetDefaultGroup" THEN "group" ELSE "config"

\* the deferred calls run last registered first: Unlock, then instances.Clear
MutationStepsClearFirst == <<"clear", "lock", "write", "unlock">>

MutationSteps == <<"lock", "write", "unlock", "clear">>

StepAfter(s) ==
    LET i == CHOOSE k \in 1..Len(MutationSteps) : MutationSteps[k] = s
    IN IF i = Len(MutationSteps) THEN "return" ELSE MutationSteps[i + 1]

\* which lock of configs the goroutine holds
Held(p) ==
    IF rw.w = p /\ rw.held THEN "exclusive"
    ELSE IF p \in rw.readers THEN "shared" ELSE "none"

\* another goroutine is inside its exclusive section assigning the field
WriterOn(p, field) ==
    /\ rw.w # ""
    /\ rw.w # p
    /\ rw.held
    /\ WrittenField(mut[rw.w].op) = field

Access(p, op, field, write) ==
    [op |-> op, field |-> field, write |-> write, lock |-> Held(p),
     overlap |-> WriterOn(p, field)]

\* the accesses to configs a goroutine makes in the step it takes from pc:
\* the assignment of a mutation, the reads of configs.group at the top of
\* Instance and of New, the reads of configs.config in New and in
\* getConfigNodeByGroup, called by New and by getSqlDb
AccessesAt(p, pc) ==
    CASE p \in Mutators /\ pc = "write" ->
            {Access(p, mut[p].op.kind, WrittenField(mut[p].op), TRUE)}
      [] p \in Callers /\ pc = "idle" -> {Access(p, "Instance", "group", FALSE)}
      [] p \in Callers /\ pc = "new" -> {Access(p, "New", "group", FALSE)}
      [] p \in Callers /\ pc = "build" ->
            {Access(p, "New", "config", FALSE),
             Access(p, "getConfigNodeByGroup", "config", FALSE)}
      [] p \in Callers /\ pc = "hold" -> {Access(p, "getSqlDb", "config", FALSE)}
      [] OTHER -> {}

NoInstance ==
    [pc |-> "idle", group |-> "", groupName |-> "",
     db |-> NilDB, err |-> Nil, node |-> NilNode]

NoMutation == [pc |-> "idle", op |-> NoOpCall, wrote |-> 0]

\* what New builds under the shared lock: the DB object or the error
NewResults(config, groupName, version) ==
    IF DOMAIN config = {}
    THEN {[db |-> NilDB, err |-> ErrEmpty]}
    ELSE IF groupName \notin DOMAIN config
    THEN {[db |-> NilDB, err |-> ErrNotFound(groupName)]}
    ELSE {IF res.err # Nil THEN [db |-> NilDB, err |-> res.err]
          ELSE IF res.node = NilNode THEN [db |-> NilDB, err |-> ErrNilNode]
          ELSE IF res.node.Type \notin driverMap
          THEN [db |-> NilDB, err |-> ErrUnsupported]
          ELSE [db |-> [group |-> groupName, config |-> res.node, ver |-> version],
                err |-> Nil] :
            res \in Selections(config, groupName, TRUE)}

ConfigInit ==
    /\ configs \in {<<>>, [g \in {DefaultGroup} |-> <<NodeA>>]}
    /\ internalCache = <<>>
    /\ dataMu = ""
    /\ pools = <<>>
    /\ gPc = [g \in Goroutines |-> "idle"]
    /\ gCall = [g \in Goroutines |-> NoCall]
    /\ coreFlags = [c \in Cores |-> [debug |-> FALSE, dryRun |-> FALSE]]
    /\ configsGroup = DefaultGroup
    /\ rw = [w |-> "", held |-> FALSE, readers |-> {}]
    /\ instances = <<>>
    /\ instMu = ""
    /\ mut = [m \in Mutators |-> NoMutation]
    /\ inst = [i \in Callers |-> NoInstance]
    /\ ver = 0
    /\ returnedVer = 0

ConfigIdle ==
    /\ configsGroup = DefaultGroup
    /\ rw = [w |-> "", held |-> FALSE, readers |-> {}]
    /\ instances = <<>>
    /\ instMu = ""
    /\ mut = [m \in Mutators |-> NoMutation]
    /\ inst = [i \in Callers |-> NoInstance]
    /\ ver = 0
    /\ returnedVer = 0

\* SetConfig, SetConfigGroup, AddConfigNode or SetDefaultGroup is called
MutationCall(m, op) ==
    /\ mut[m].pc = "idle"
    /\ ver + Cardinality({x \in Mutators : mut[x].pc \notin {"idle"} /\ mut[x].wrote = 0}) < MaxWrites
    /\ mut' = [mut EXCEPT ![m] = [pc |-> MutationSteps[1], op |-> op, wrote |-> 0]]
    /\ UNCHANGED <<configs, configsGroup, rw, instances, instMu, inst, ver, returnedVer>>
    /\ UNCHANGED configFrame

\* configs.Lock(): the writer shuts new readers out ...
Lock(m) ==
    /\ mut[m].pc = "lock"
    /\ rw.w = ""
    /\ rw' = [rw EXCEPT !.w = m]
    /\ mut' = [mut EXCEPT ![m].pc = "acquire"]
    /\ UNCHANGED <<configs, configsGroup, instances, instMu, inst, ver, returnedVer>>
    /\ UNCHANGED configFrame

\* ... and goes on when the readers that were inside have left
LockAcquired(m) ==
    /\ mut[m].pc = "acquire"
    /\ rw.readers = {}
    /\ rw' = [rw EXCEPT !.held = TRUE]
    /\ mut' = [mut EXCEPT ![m].pc = StepAfter("lock")]
    /\ UNCHANGED <<configs, configsGroup, instances, instMu, inst, ver, returnedVer>>
    /\ UNCHANGED configFrame

\* the assignment to configs.config or configs.group
Write(m) ==
    /\ mut[m].pc = "write"
    /\ configs' = WriteConfig(configs, mut[m].op)
    /\ configsGroup' = WriteGroup(configsGroup, mut[m].op)
    /\ ver' = ver + 1
    /\ mut' = [mut EXCEPT ![m].pc = StepAfter("write"), ![m].wrote = ver + 1]
    /\ UNCHANGED <<rw, instances, instMu, inst, returnedVer>>
    /\ UNCHANGED configFrame

\* the deferred configs.Unlock()
Unlock(m) ==
    /\ mut[m].pc = "unlock"
    /\ rw' = [rw EXCEPT !.w = "", !.held = FALSE]
    /\ mut' = [mut EXCEPT ![m].pc = StepAfter("unlock"), ![m].op = NoOpCall]
    /\ UNCHANGED <<configs, configsGroup, instances, instMu, inst, ver, returnedVer>>
    /\ UNCHANGED configFrame

\* the deferred instances.Clear(), under the lock of the map
Clear(m) ==
    /\ mut[m].pc = "clear"
    /\ instMu = ""
    /\ instances' = <<>>
    /\ mut' = [mut EXCEPT ![m].pc = StepAfter("clear")]
    /\ UNCHANGED <<configs, configsGroup, rw, instMu, inst, ver, returnedVer>>
    /\ UNCHANGED configFrame

\* the mutation call returns to its caller
MutationReturn(m) ==
    /\ mut[m].pc = "return"
    /\ returnedVer' = IF mut[m].wrote > returnedVer THEN mut[m].wrote ELSE returnedVer
    /\ mut' = [mut EXCEPT ![m] = NoMutation]
    /\ UNCHANGED <<configs, configsGroup, rw, instances, instMu, inst, ver>>
    /\ UNCHANGED configFrame

\* the two words of the string configs.group, read without the lock while an
\* assignment is made: the pointer of one string with the length of the
\* other gives the first five bytes of "default", or "spare" and the two
\* bytes that follow it in memory
TornGroups(old, new) ==
    IF {old, new} = {DefaultGroup, SpareGroup} THEN {"defau", "spare.."} ELSE {}

\* what a read of configs.group without the lock can give: the value, or,
\* while a goroutine is about to assign it, the new value or a torn one
ReadGroup ==
    {configsGroup}
    \cup UNION {{mut[m].op.name} \cup TornGroups(configsGroup, mut[m].op.name) :
                  m \in {x \in Mutators : /\ mut[x].pc = "write"
                                          /\ mut[x].op.kind = "SetDefaultGroup"}}

\* Instance(name): the default group is read without the lock
Instance(i, name) ==
    /\ inst[i].pc = "idle"
    /\ \E group \in ReadGroup :
          inst' = [inst EXCEPT ![i] =
                     [NoInstance EXCEPT !.pc = "search",
                         !.group = IF name # "" THEN name ELSE group]]
    /\ UNCHANGED <<configs, configsGroup, rw, instances, instMu, mut, ver, returnedVer>>
    /\ UNCHANGED configFrame

\* GetOrSetFuncLock: the lookup under the read lock of the map
Search(i) ==
    /\ inst[i].pc = "search"
    /\ instMu = ""
    /\ inst' = [inst EXCEPT ![i] =
                  IF inst[i].group \in DOMAIN instances
                  THEN [@ EXCEPT !.pc = "return", !.db = instances[inst[i].group]]
                  ELSE [@ EXCEPT !.pc = "setLock"]]
    /\ UNCHANGED <<configs, configsGroup, rw, instances, instMu, mut, ver, returnedVer>>
    /\ UNCHANGED configFrame

\* doSetWithLockCheck: the write lock of the map and the second lookup
SetLock(i) ==
    /\ inst[i].pc = "setLock"
    /\ instMu = ""
    /\ IF inst[i].group \in DOMAIN instances
       THEN /\ inst' = [inst EXCEPT ![i].pc = "return",
                                    ![i].db = instances[inst[i].group]]
            /\ UNCHANGED instMu
       ELSE /\ inst' = [inst EXCEPT ![i].pc = "new"]
            /\ instMu' = i
    /\ UNCHANGED <<configs, configsGroup, rw, instances, mut, ver, returnedVer>>
    /\ UNCHANGED configFrame

\* New(group): the default group is read before the shared lock is taken
New(i) ==
    /\ inst[i].pc = "new"
    /\ \E group \in ReadGroup :
          inst' = [inst EXCEPT ![i].pc = "rlock",
                     ![i].groupName = IF inst[i].group # "" THEN inst[i].group
                                      ELSE group]
    /\ UNCHANGED <<configs, configsGroup, rw, instances, instMu, mut, ver, returnedVer>>
    /\ UNCHANGED configFrame

\* configs.RLock(): blocks while a writer holds or waits for the lock
RLock(i) ==
    /\ inst[i].pc = "rlock"
    /\ rw.w = ""
    /\ rw' = [rw EXCEPT !.readers = @ \cup {i}]
    /\ inst' = [inst EXCEPT ![i].pc = "build"]
    /\ UNCHANGED <<configs, configsGroup, instances, instMu, mut, ver, returnedVer>>
    /\ UNCHANGED configFrame

\* the body of New and of getConfigNodeByGroup, then the deferred RUnlock
Build(i) ==
    /\ inst[i].pc = "build"
    /\ \E res \in NewResults(configs, inst[i].groupName, ver) :
          inst' = [inst EXCEPT ![i].pc = "store", ![i].db = res.db,
                               ![i].err = res.err]
    /\ rw' = [rw EXCEPT !.readers = @ \ {i}]
    /\ UNCHANGED <<configs, configsGroup, instances, instMu, mut, ver, returnedVer>>
    /\ UNCHANGED configFrame

\* doSetWithLockCheck: a non-nil value is stored, the map is unlocked
Store(i) ==
    /\ inst[i].pc = "store"
    /\ instances' = IF inst[i].db = NilDB THEN instances
                    ELSE [k \in DOMAIN instances \cup {inst[i].group} |->
                            IF k = inst[i].group THEN inst[i].db ELSE instances[k]]
    /\ instMu' = ""
    /\ inst' = [inst EXCEPT ![i].pc = "return"]
    /\ UNCHANGED <<configs, configsGroup, rw, mut, ver, returnedVer>>
    /\ UNCHANGED configFrame

\* Instance returns the object, or the error of New
InstanceReturn(i) ==
    /\ inst[i].pc = "return"
    /\ inst' = [inst EXCEPT ![i] =
                  IF inst[i].db = NilDB THEN NoInstance
                  ELSE [NoInstance EXCEPT !.pc = "hold", !.db = inst[i].db]]
    /\ UNCHANGED <<configs, configsGroup, rw, instances, instMu, mut, ver, returnedVer>>
    /\ UNCHANGED configFrame

\* SetConfigGroup and AddConfigNode assign into the map in place; SetConfig
\* and SetDefaultGroup assign a field
WritesMap(op) == op.kind \in {"SetConfigGroup", "AddConfigNode"}

\* getSqlDb on the object the caller holds: getConfigNodeByGroup reads
\* configs.config with no lock held. While a goroutine assigns into the map
\* the read gives the map before or after the assignment, or the run time
\* ends the process (concurrent map read and map write): no goroutine takes
\* a step after that
getSqlDbLookup(i, master) ==
    /\ inst[i].pc = "hold"
    /\ \/ /\ \E res \in Selections(configs, inst[i].db.group, master) :
                inst' = [inst EXCEPT ![i] =
                           [NoInstance EXCEPT !.pc = "resolved", !.node = res.node,
                                              !.err = res.err]]
          /\ mut' = mut
       \/ /\ \E m \in Mutators : mut[m].pc = "write" /\ WritesMap(mut[m].op)
          /\ inst' = [j \in Callers |-> [NoInstance EXCEPT !.pc = "fatal"]]
          /\ mut' = [m \in Mutators |-> [mut[m] EXCEPT !.pc = "fatal"]]
    /\ UNCHANGED <<configs, configsGroup, rw, instances, instMu, ver, returnedVer>>
    /\ UNCHANGED configFrame

\* the statement is done and the caller lets the object go
Release(i) ==
    /\ inst[i].pc = "resolved"
    /\ inst' = [inst EXCEPT ![i] = NoInstance]
    /\ UNCHANGED <<configs, configsGroup, rw, instances, instMu, mut, ver, returnedVer>>
    /\ UNCHANGED configFrame

\* the goroutine cannot take its next step: it waits for a lock
Waiting(p) ==
    \/ p \in Mutators /\ mut[p].pc = "lock" /\ rw.w # ""
    \/ p \in Mutators /\ mut[p].pc = "acquire" /\ rw.readers # {}
    \/ p \in Mutators /\ mut[p].pc = "clear" /\ instMu # ""
    \/ p \in Callers /\ inst[p].pc \in {"search", "setLock"} /\ instMu # ""
    \/ p \in Callers /\ inst[p].pc = "rlock" /\ rw.w # ""

ConfigNext ==
    \/ \E m \in Mutators, op \in MutationOps : MutationCall(m, op)
    \/ \E m \in Mutators : Lock(m)
    \/ \E m \in Mutators : LockAcquired(m)
    \/ \E m \in Mutators : Write(m)
    \/ \E m \in Mutators : Unlock(m)
    \/ \E m \in Mutators : Clear(m)
    \/ \E m \in Mutators : MutationReturn(m)
    \/ \E i \in Callers, name \in {"", DefaultGroup} : Instance(i, name)
    \/ \E i \in Callers : Search(i)
    \/ \E i \in Callers : SetLock(i)
    \/ \E i \in Callers : New(i)
    \/ \E i \in Callers : RLock(i)
    \/ \E i \in Callers : Build(i)
    \/ \E i \in Callers : Store(i)
    \/ \E i \in Callers : InstanceReturn(i)
    \/ \E i \in Callers, master \in BOOLEAN : getSqlDbLookup(i, master)
    \/ \E i \in Callers : Release(i)

----------------------------------------------------------------------------
(* Statements on a connection: context, timeouts, dry run, tracing *)

TimeoutKinds == {"Query", "Exec", "Prepare", "Tran"}

\* the values of QueryTimeout, ExecTimeout, PrepareTimeout and TranTimeout
Timeouts == (0 - 1)..(MaxTime + 1)

\* Deadline() of a context: (deadline, ok)
NoDeadline == [ok |-> FALSE, at |-> 0]

Deadline(d) == [ok |-> TRUE, at |-> d]

\* the contexts a caller hands to Ctx: context.Background() or one with a deadline
Contexts == {NoDeadline} \cup {Deadline(d) : d \in 1..(MaxTime + 2)}

\* context.WithDeadline: an earlier deadline of the parent stays
WithDeadline(parent, d) ==
    IF parent.ok /\ parent.at < d THEN parent ELSE Deadline(d)

\* context.WithTimeout(parent, timeout) at time t
WithTimeout(parent, t, timeout) == WithDeadline(parent, t + timeout)

GetCtx == core.ctx

GetDebug == core.debug

GetDryRunConfigOnly == core.DryRun

GetDryRun == core.DryRun \/ allDryRun

\* the context handed to the connection: the timeout of the kind is attached
\* whenever it is configured
CtxWithTimeout(kind, t) ==
    IF core.timeouts[kind] > 0
    THEN WithTimeout(GetCtx, t, core.timeouts[kind])
    ELSE GetCtx

\* whether the deferred cancel function of the call exists and has run
Cancels(kind) == core.timeouts[kind] > 0

ErrPrepare == "prepare failed"
ErrNoRows == "sql: no rows in result set"

ExecText == "UPDATE t SET a=1"
QueryText == "SELECT * FROM t"

formatError(err, sql) ==
    IF err # Nil /\ err # ErrNoRows THEN err \o ", " \o sql \o "\n" ELSE err

NilDriverResult == [nil |-> TRUE, rows |-> 0, id |-> 0]

DriverResult(rows, id) == [nil |-> FALSE, rows |-> rows, id |-> id]

\* what link.ExecContext can return
ExecOutcomes ==
    {[result |-> DriverResult(1, 1), err |-> Nil],
     [result |-> NilDriverResult, err |-> ErrExec]}

\* new(SqlResult)
NewSqlResult == [wrapper |-> TRUE, result |-> NilDriverResult, affected |-> 0]

\* the sql.Result of the driver, handed on as it is
RawResult(r) == [wrapper |-> FALSE, result |-> r, affected |-> 0]

RowsAffected(r) ==
    IF ~r.wrapper THEN r.result.rows
    ELSE IF r.affected > 0 THEN r.affected
    ELSE IF r.result.nil THEN 0
    ELSE r.result.rows

LastInsertId(r) ==
    IF ~r.wrapper THEN r.result.id
    ELSE IF r.result.nil THEN 0
    ELSE r.result.id

\* pc is "wait" while the call waits for the connection and "done" when it
\* has returned; dryAll and dryAny tell whether dry run was enabled all the
\* time, or at some time, since the call started
NoSent ==
    [kind |-> "none", pc |-> "none", at |-> 0, caller |-> NoDeadline,
     passed |-> NoDeadline, linkCalls |-> 0, traces |-> 0, logs |-> 0,
     result |-> NewSqlResult, err |-> Nil, cancelled |-> FALSE,
     dryAll |-> FALSE, dryAny |-> FALSE]

\* the record of a DoExec in progress after dry run is set to dry
Seen(s, dry) ==
    IF s.kind = "exec" /\ s.pc = "wait" THEN [s EXCEPT !.dryAll = @ /\ dry, !.dryAny = @ \/ dry] ELSE s

ExecInit ==
    /\ core \in [DryRun : BOOLEAN, debug : {FALSE}, ctx : {NoDeadline},
                 timeouts : [TimeoutKinds -> Timeouts]]
    /\ allDryRun \in BOOLEAN
    /\ sent = NoSent

ExecIdle ==
    /\ core = [DryRun |-> FALSE, debug |-> FALSE, ctx |-> NoDeadline,
               timeouts |-> [k \in TimeoutKinds |-> 0]]
    /\ allDryRun = FALSE
    /\ sent = NoSent

\* SetDryRun and SetDebug run between two calls or while a call waits for
\* the connection
SetDryRun(enabled) ==
    /\ sent.pc # "done"
    /\ core' = [core EXCEPT !.DryRun = enabled]
    /\ sent' = Seen(sent, enabled \/ allDryRun)
    /\ UNCHANGED <<allDryRun, execFrame>>

SetDebug(debug) ==
    /\ sent.pc # "done"
    /\ core' = [core EXCEPT !.debug = debug]
    /\ UNCHANGED <<allDryRun, sent, execFrame>>

\* Ctx(ctx): the call that follows runs on a copy of the Core that carries
\* ctx; a call in progress keeps the Core it started on
Ctx(ctx) ==
    /\ sent = NoSent
    /\ core' = [core EXCEPT !.ctx = ctx]
    /\ UNCHANGED <<allDryRun, sent, execFrame>>

\* DoExec at time t, up to the answer of the connection; out is what the
\* connection would answer
DoExecCall(t, out) ==
    /\ sent = NoSent
    /\ LET ctx == CtxWithTimeout("Exec", t)
           dry == GetDryRun
       IN sent' = [NoSent EXCEPT !.kind = "exec", !.pc = "wait", !.at = t,
                      !.caller = GetCtx, !.passed = ctx,
                      !.linkCalls = IF dry THEN 0 ELSE 1,
                      !.result = IF dry THEN NewSqlResult ELSE RawResult(out.result),
                      !.err = IF dry THEN Nil ELSE out.err,
                      !.dryAll = core.DryRun \/ allDryRun,
                      !.dryAny = core.DryRun \/ allDryRun]
    /\ UNCHANGED <<core, allDryRun, execFrame>>

\* DoExec after the answer: the trace, the log under debug, the error with
\* the statement, the deferred cancel function
DoExecTraced ==
    /\ sent.kind = "exec"
    /\ sent.pc = "wait"
    /\ sent' = [sent EXCEPT !.pc = "done", !.traces = 1,
                   !.logs = IF GetDebug THEN 1 ELSE 0,
                   !.err = formatError(sent.err, ExecText),
                   !.cancelled = Cancels("Exec")]
    /\ UNCHANGED <<core, allDryRun, execFrame>>

\* DoQuery at time t, up to the answer of the connection
DoQueryCall(t, ok) ==
    /\ sent = NoSent
    /\ sent' = [NoSent EXCEPT !.kind = "query", !.pc = "wait", !.at = t,
                   !.caller = GetCtx, !.passed = CtxWithTimeout("Query", t),
                   !.linkCalls = 1, !.err = IF ok THEN Nil ELSE ErrQuery]
    /\ UNCHANGED <<core, allDryRun, execFrame>>

\* DoQuery after the answer
DoQueryTraced ==
    /\ sent.kind = "query"
    /\ sent.pc = "wait"
    /\ sent' = [sent EXCEPT !.pc = "done", !.traces = 1,
                   !.logs = IF GetDebug THEN 1 ELSE 0,
                   !.err = formatError(sent.err, QueryText),
                   !.cancelled = Cancels("Query")]
    /\ UNCHANGED <<core, allDryRun, execFrame>>

\* DoPrepare at time t, up to the answer of the connection
DoPrepareCall(t, ok) ==
    /\ sent = NoSent
    /\ sent' = [NoSent EXCEPT !.kind = "prepare", !.pc = "wait", !.at = t,
                   !.caller = GetCtx, !.passed = CtxWithTimeout("Prepare", t),
                   !.linkCalls = 1, !.err = IF ok THEN Nil ELSE ErrPrepare]
    /\ UNCHANGED <<core, allDryRun, execFrame>>

\* DoPrepare after the answer: the cancel function is dropped, not called
DoPrepareTraced ==
    /\ sent.kind = "prepare"
    /\ sent.pc = "wait"
    /\ sent' = [sent EXCEPT !.pc = "done", !.traces = 1,
                   !.logs = IF GetDebug THEN 1 ELSE 0]
    /\ UNCHANGED <<core, allDryRun, execFrame>>

\* what c.DB.Master() finds for Begin: no master node of the group, or the
\* node it chose, with its Debug and DryRun, and the error of Open
Masters ==
    {[found |-> FALSE, Debug |-> FALSE, DryRun |-> FALSE, err |-> ErrNoMaster]}
    \cup {[found |-> TRUE, Debug |-> d, DryRun |-> r, err |-> e] :
            d \in BOOLEAN, r \in BOOLEAN, e \in {Nil, ErrOpen}}

\* Begin at time t, up to the answer of c.DB.Master()
BeginCall(t) ==
    /\ sent = NoSent
    /\ sent' = [NoSent EXCEPT !.kind = "begin", !.pc = "master", !.at = t]
    /\ UNCHANGED <<core, allDryRun, execFrame>>

\* Master has answered: getSqlDb has set the flags of the Core from a node
\* with Debug, also when Open failed; Begin returns its error, or calls
\* BeginTx under the context
BeginMaster(master) ==
    /\ sent.kind = "begin"
    /\ sent.pc = "master"
    /\ core' = IF master.found /\ master.Debug
               THEN [core EXCEPT !.debug = TRUE, !.DryRun = master.DryRun]
               ELSE core
    /\ sent' = IF master.err # Nil
               THEN [sent EXCEPT !.pc = "done", !.caller = GetCtx, !.err = master.err]
               ELSE [sent EXCEPT !.pc = "wait", !.caller = GetCtx,
                                 !.passed = CtxWithTimeout("Tran", sent.at),
                                 !.linkCalls = 1]
    /\ UNCHANGED <<allDryRun, execFrame>>

\* BeginTx has answered: Begin returns, and the deferred cancel function
\* runs; nothing of the Core is read after BeginTx has answered
BeginTx(ok) ==
    /\ sent.kind = "begin"
    /\ sent.pc = "wait"
    /\ sent' = [sent EXCEPT !.pc = "done", !.err = IF ok THEN Nil ELSE ErrBegin,
                            !.cancelled = Cancels("Tran")]
    /\ UNCHANGED <<core, allDryRun, execFrame>>

\* the caller takes the result; the next call starts after that
CallReturned ==
    /\ sent.pc = "done"
    /\ sent' = NoSent
    /\ UNCHANGED <<core, allDryRun, execFrame>>

ExecNext ==
    \/ \E enabled \in BOOLEAN : SetDryRun(enabled)
    \/ \E debug \in BOOLEAN : SetDebug(debug)
    \/ \E ctx \in Contexts : Ctx(ctx)
    \/ \E t \in 0..MaxTime, out \in ExecOutcomes : DoExecCall(t, out)
    \/ DoExecTraced
    \/ \E t \in 0..MaxTime, ok \in BOOLEAN : DoQueryCall(t, ok)
    \/ DoQueryTraced
    \/ \E t \in 0..MaxTime, ok \in BOOLEAN : DoPrepareCall(t, ok)
    \/ DoPrepareTraced
    \/ \E t \in 0..MaxTime : BeginCall(t)
    \/ \E master \in Masters : BeginMaster(master)
    \/ \E ok \in BOOLEAN : BeginTx(ok)
    \/ CallReturned

----------------------------------------------------------------------------
(* SQL text and arguments: handleArguments *)

\* SQL text is a sequence of pieces; the piece "?" is a placeholder
Holder == "?"

WhereKeyWord == " WHERE "

\* arguments: a scalar, a slice of arguments, a []byte, a time.Time, a gtime.Time
ScalarArg(v) == [kind |-> "scalar", v |-> v, elems |-> <<>>]

SliceArg(elems) == [kind |-> "slice", v |-> "", elems |-> elems]

BytesArg(v) == [kind |-> "bytes", v |-> v, elems |-> <<>>]

TimeArg(v) == [kind |-> "time", v |-> v, elems |-> <<>>]

GTimeArg(v) == [kind |-> "gtime", v |-> v, elems |-> <<>>]

Elements == <<ScalarArg("1"), ScalarArg("2"), ScalarArg("3"), ScalarArg("4")>>

ArgValues ==
    {ScalarArg("x"), BytesArg("john"), TimeArg("2021-01-01T00:00:00Z"),
     GTimeArg("2021-01-01 00:00:00")}
    \cup {SliceArg(SubSeq(Elements, 1, n)) : n \in 0..MaxSlice}

ArgLists == UNION {[1..n -> ArgValues] : n \in 0..MaxArgs}

Columns == <<"a", "b", "c", "d">>

\* "SELECT * FROM t WHERE a IN(?) AND b IN(?) ..." with n placeholders,
\* with the keyword in either case or with no WHERE at all
SqlText(n, where) ==
    LET Cond[i \in 0..n] ==
            IF i = 0 THEN <<>>
            ELSE Cond[i - 1] \o <<Columns[i] \o " IN(", Holder, ")">>
    IN <<"SELECT * FROM t">> \o where \o Cond[n]

\* "UPDATE t SET z=? WHERE a IN(?) ...": a placeholder ahead of the keyword
SetText(n, where) ==
    <<"UPDATE t SET z=", Holder>> \o SubSeq(SqlText(n, where), 2, Len(SqlText(n, where)))

SqlTexts ==
    {SqlText(n, w) : n \in 0..(MaxArgs + 1),
                     w \in {<<WhereKeyWord>>, <<" where ">>, <<" HAVING ">>}}
    \cup {SetText(n, w) : n \in 0..MaxArgs, w \in {<<WhereKeyWord>>, <<" HAVING ">>}}

\* gstr.Count(sql, "?")
CountHolders(sql) == Cardinality({i \in 1..Len(sql) : sql[i] = Holder})

\* the position of the n-th placeholder of sql
NthHolder(sql, n) ==
    CHOOSE i \in 1..Len(sql) :
        sql[i] = Holder /\ Cardinality({j \in 1..i : sql[j] = Holder}) = n

\* "?" + strings.Repeat(",?", n-1)
Holders(n) == [i \in 1..(2 * n - 1) |-> IF i % 2 = 1 THEN Holder ELSE ","]

\* gregex.ReplaceStringFunc with the counter: the n-th placeholder becomes len of them
ReplaceNth(sql, n, len) ==
    IF n < 1 \/ n > CountHolders(sql) THEN sql
    ELSE LET p == NthHolder(sql, n)
         IN SubSeq(sql, 1, p - 1) \o Holders(len) \o SubSeq(sql, p + 1, Len(sql))

\* gstr.PosI(sql, " WHERE "): 0 when there is none
PosWhere(sql) ==
    LET at == {i \in 1..Len(sql) : sql[i] \in {WhereKeyWord, " where "}}
    IN IF at = {} THEN 0 ELSE CHOOSE i \in at : \A j \in at : i <= j

\* the counter value at which the placeholder of the argument is found:
\* index is the position of the argument counted from 1
HolderTargetNoShift(index, insertHolderCount) == index

HolderTarget(index, insertHolderCount) == index + insertHolderCount

\* one round of the loop over args
ArgStep(st, index, arg, nargs) ==
    CASE arg.kind = "slice" /\ Len(arg.elems) = 0 /\ CountHolders(st.sql) > 0 ->
            [st EXCEPT !.done = TRUE, !.args = <<>>,
                       !.sql = IF PosWhere(st.sql) = 0 THEN <<"0=1">>
                               ELSE SubSeq(st.sql, 1, PosWhere(st.sql)) \o <<"0=1">>]
      [] arg.kind = "slice" /\ Len(arg.elems) = 0 /\ CountHolders(st.sql) = 0 -> st
      [] arg.kind = "slice" /\ Len(arg.elems) > 0 ->
            LET n == Len(arg.elems)
                target == HolderTarget(index, st.holder)
                added == [st EXCEPT !.args = st.args \o arg.elems]
            IN IF nargs = 1 /\ CountHolders(st.sql) = n THEN added
               ELSE IF target > CountHolders(st.sql) THEN added
               ELSE [added EXCEPT !.sql = ReplaceNth(st.sql, target, n),
                                  !.holder = st.holder + n - 1]
      [] arg.kind = "gtime" -> [st EXCEPT !.args = Append(st.args, ScalarArg(arg.v))]
      [] OTHER -> [st EXCEPT !.args = Append(st.args, arg)]

RECURSIVE HandleFrom(_, _, _)
HandleFrom(st, args, index) ==
    IF index > Len(args) \/ st.done THEN st
    ELSE HandleFrom(ArgStep(st, index, args[index], Len(args)), args, index + 1)

handleArguments(sql, args) ==
    LET st == HandleFrom([sql |-> sql, args |-> <<>>, holder |-> 0, done |-> FALSE],
                         args, 1)
    IN [sql |-> st.sql, args |-> st.args]

formatSql(sql, args) == handleArguments(sql, args)

\* Core.GetChars: no quote characters by default
GetChars == [left |-> "", right |-> ""]

\* a single word is wrapped in the quote characters
QuoteString(s) == GetChars.left \o s \o GetChars.right

QuotePrefixTableName(tables) == GetChars.left \o tables \o GetChars.right

TableName == "t"

\* gtime.Now().String()
Timestamp == ScalarArg("2021-06-01 12:00:00")

----------------------------------------------------------------------------
(* Conditions: formatWhere, formatWhereInterfaces, formatWhereKeyValue *)

\* a nil value, and a value of the Raw type
NilArg == [kind |-> "nil", v |-> "", elems |-> <<>>]

RawArg(text) == [kind |-> "raw", v |-> text, elems |-> <<>>]

\* the scalar "0" stands for the integer 0, "" for the empty string
WhereValues ==
    {NilArg, ScalarArg("1"), ScalarArg("0"), BytesArg("john"), RawArg("NOW()"),
     SliceArg(<<>>), SliceArg(SubSeq(Elements, 1, 1)), SliceArg(SubSeq(Elements, 1, 3))}

\* keys and texts are sequences of pieces, like SQL text
PlainKeys == {<<"x">>, <<"y">>}

WhereKeys ==
    PlainKeys \cup {<<"age >">>, <<"name like">>, <<"age > 16">>, <<"x IN (", Holder, ")">>}

\* the pieces of text used here that are made of letters, digits, "-" and "_"
Words == {"x", "y", "z", "a", "b", "c", "d", "t", "id", "deleted_at", "john", "0", "1", "2", "3"}

\* regularFieldNameRegPattern `^[\w\.\-\_]+$`; no piece used here has a "."
IsRegularFieldName(s) == Len(s) = 1 /\ s[1] \in Words

\* lastOperatorRegPattern `[<>=]+\s*$`
IsLastOperator(s) == Len(s) > 0 /\ s[Len(s)] \in {"age >", "uid>="}

\* the text ends in " like"
IsLike(s) == Len(s) > 0 /\ s[Len(s)] \in {"name like"}

\* quoteWordReg `^[a-zA-Z0-9\-_]+$`
IsWord(s) == Len(s) = 1 /\ s[1] \in Words

QuoteWord(s) ==
    IF IsWord(s) THEN <<GetChars.left \o s[1] \o GetChars.right>> ELSE s

\* empty.IsEmpty
IsEmpty(value) ==
    \/ value.kind = "nil"
    \/ value.kind = "slice" /\ Len(value.elems) = 0
    \/ value.kind = "scalar" /\ value.v \in {"", "0"}

\* utils.IsArray: the kind is slice or array, []byte included
IsArray(value) == value.kind \in {"slice", "bytes"}

NewBuffer == [buffer |-> <<>>, args |-> <<>>]

\* a Raw value is written to the buffer, any other value is added to the arguments
WriteValueUnbound(b, text, value) == [buffer |-> b.buffer \o text, args |-> b.args]

WriteValue(b, text, value) ==
    IF value.kind = "raw"
    THEN [buffer |-> b.buffer \o text \o <<value.v>>, args |-> b.args]
    ELSE [buffer |-> b.buffer \o text, args |-> Append(b.args, value)]

formatWhereKeyValue(b, key, value) ==
    LET quotedKey == QuoteWord(key)
        buf == IF Len(b.buffer) > 0 THEN b.buffer \o <<" AND ">> ELSE b.buffer
        sep == [buffer |-> buf, args |-> b.args]
        count == CountHolders(quotedKey)
    IN CASE value.kind = "slice" ->
              IF count = 0
              THEN [buffer |-> buf \o quotedKey \o <<" IN(", Holder, ")">>,
                    args |-> Append(b.args, value)]
              ELSE IF count # Len(value.elems)
              THEN [buffer |-> buf \o quotedKey, args |-> Append(b.args, value)]
              ELSE [buffer |-> buf \o quotedKey, args |-> b.args \o value.elems]
         \* the four bytes of "john" are more than the placeholders of any key
         [] value.kind = "bytes" ->
              IF count = 0
              THEN [buffer |-> buf \o quotedKey \o <<" IN(", Holder, ")">>,
                    args |-> Append(b.args, value)]
              ELSE [buffer |-> buf \o quotedKey, args |-> Append(b.args, value)]
         [] value.kind = "nil" ->
              IF IsRegularFieldName(key)
              THEN [buffer |-> buf \o quotedKey \o <<" IS NULL">>, args |-> b.args]
              ELSE [buffer |-> buf \o quotedKey, args |-> b.args]
         [] OTHER ->
              IF count # 0 THEN WriteValue(sep, quotedKey, value)
              ELSE IF IsLike(quotedKey) \/ IsLastOperator(quotedKey)
              THEN WriteValue(sep, quotedKey \o <<" ", Holder>>, value)
              ELSE IF IsRegularFieldName(key)
              THEN WriteValue(sep, quotedKey \o <<"=", Holder>>, value)
              ELSE IF IsEmpty(value)
              THEN [buffer |-> buf \o quotedKey, args |-> b.args]
              ELSE WriteValue(sep, quotedKey \o <<"=", Holder>>, value)

\* gconv.String of a key or of an item of an odd list
ItemString(item) == item.v

formatWhereInterfaces(where, b) ==
    IF Len(where) = 0 THEN b
    ELSE IF Len(where) % 2 # 0
    THEN [buffer |-> b.buffer \o [i \in 1..Len(where) |-> ItemString(where[i])],
          args |-> b.args]
    ELSE LET F[n \in 0..(Len(where) \div 2)] ==
                 IF n = 0 THEN b
                 ELSE LET prev == F[n - 1]
                          str == <<ItemString(where[2 * n - 1])>>
                          buf == IF Len(prev.buffer) > 0
                                 THEN prev.buffer \o <<" AND ">> ELSE prev.buffer
                      IN WriteValue([buffer |-> buf, args |-> prev.args],
                                    QuoteWord(str) \o <<"=", Holder>>, where[2 * n])
         IN F[Len(where) \div 2]

StringWhere(text) == [kind |-> "string", text |-> text, pairs |-> <<>>, items |-> <<>>]

\* a map in one order of iteration
MapWhere(pairs) == [kind |-> "map", text |-> <<>>, pairs |-> pairs, items |-> <<>>]

SliceWhere(items) == [kind |-> "slice", text |-> <<>>, pairs |-> <<>>, items |-> items]

\* the entries of a map that OmitEmpty leaves out
OmittedAlways(key, value, omitEmpty) == IsRegularFieldName(key) /\ IsEmpty(value)

Omitted(key, value, omitEmpty) == IsRegularFieldName(key) /\ omitEmpty /\ IsEmpty(value)

\* the pairs of a map in the order of iteration
formatWhereMap(pairs, omitEmpty) ==
    LET F[n \in 0..Len(pairs)] ==
            IF n = 0 THEN NewBuffer
            ELSE IF Omitted(pairs[n].key, pairs[n].value, omitEmpty)
            THEN F[n - 1]
            ELSE formatWhereKeyValue(F[n - 1], pairs[n].key, pairs[n].value)
    IN F[Len(pairs)]

formatWhere(where, args, omitEmpty) ==
    LET b == CASE where.kind = "slice" -> formatWhereInterfaces(where.items, NewBuffer)
               [] where.kind = "map" -> formatWhereMap(where.pairs, omitEmpty)
               [] OTHER -> [buffer |-> where.text, args |-> <<>>]
        newArgs == b.args \o args
        bare == Len(newArgs) > 0 /\ CountHolders(b.buffer) = 0
        field == bare /\ ~IsLastOperator(b.buffer) /\ IsRegularFieldName(b.buffer)
        newWhere ==
            IF bare /\ IsLastOperator(b.buffer) THEN b.buffer \o <<Holder>>
            ELSE IF field
            THEN <<QuoteString(b.buffer[1])>>
                    \o (IF IsArray(newArgs[1]) THEN <<" IN (", Holder, ")">>
                        ELSE IF newArgs[1].kind = "nil" THEN <<" IS NULL">>
                        ELSE <<"=", Holder>>)
            ELSE b.buffer
        lastArgs ==
            IF field /\ ~IsArray(newArgs[1]) /\ newArgs[1].kind = "nil" THEN <<>>
            ELSE newArgs
    IN IF Len(b.buffer) = 0 THEN [sql |-> <<>>, args |-> args]
       ELSE handleArguments(newWhere, lastArgs)

----------------------------------------------------------------------------
(* Data of writes: DoInsert, DoBatchInsert, DoUpdate *)

GetInsertOperationByOption(option) ==
    CASE option = "replace" -> "REPLACE"
      [] option = "ignore" -> "INSERT IGNORE"
      [] OTHER -> "INSERT"

\* strings.Join over pieces of text
JoinWith(parts, sep) ==
    LET F[n \in 0..Len(parts)] ==
            IF n = 0 THEN <<>>
            ELSE IF n = 1 THEN parts[1]
            ELSE F[n - 1] \o <<sep>> \o parts[n]
    IN F[Len(parts)]

\* "ON DUPLICATE KEY UPDATE a=VALUES(a),b=VALUES(b)" for the save option;
\* none of the keys used here is a creation-time field
UpdateStr(option, keys) ==
    IF option = "save"
    THEN <<"ON DUPLICATE KEY UPDATE ">>
            \o JoinWith([i \in 1..Len(keys) |->
                            <<GetChars.left \o keys[i] \o GetChars.right \o "=VALUES("
                                \o GetChars.left \o keys[i] \o GetChars.right \o ")">>],
                        ",")
    ELSE <<>>

\* a record of data is a list of [key, value] in the order of iteration
RowKeys(row) == [i \in 1..Len(row) |-> row[i].key]

\* row[k], nil when the key is absent
RowValue(row, k) ==
    IF \E i \in 1..Len(row) : row[i].key = k
    THEN row[CHOOSE i \in 1..Len(row) : row[i].key = k].value
    ELSE NilArg

IsBound(value) == value.kind # "raw"

\* the text written for a value: the text of a Raw value, or a placeholder
ValueText(value) == IF value.kind = "raw" THEN value.v ELSE Holder

\* the values of a row that go to the driver, for the keys in order
RowParams(row, keys) ==
    SelectSeq([k \in 1..Len(keys) |-> RowValue(row, keys[k])], IsBound)

RowTexts(row, keys) ==
    [k \in 1..Len(keys) |-> <<ValueText(RowValue(row, keys[k]))>>]

ErrEmptyUpdate == "data cannot be empty"

ErrEmptyList == "data list cannot be empty"

\* the orders in which a range over a map of n keys can go
Orders(n) == {o \in [1..n -> 1..n] : \A i, j \in 1..n : o[i] = o[j] => i = j}

\* the statement DoExec gets from DoInsert for one record; the record is in
\* the order of the first range over dataMap, order is that of the second
DoInsert(tables, data, option, order) ==
    LET keys == RowKeys(data)
        fields == [i \in 1..Len(keys) |-> <<GetChars.left \o keys[i] \o GetChars.right>>]
    IN formatSql(<<GetInsertOperationByOption(option), " INTO ",
                   QuotePrefixTableName(tables), "(">>
                    \o JoinWith(fields, ",") \o <<") VALUES(">>
                    \o JoinWith(RowTexts(data, keys), ",") \o <<") ">>
                    \o UpdateStr(option, [i \in 1..Len(keys) |-> keys[order[i]]]),
                 RowParams(data, keys))

defaultBatchNumber == 10

\* batch[0] when it is given and positive
BatchNumber(batch) ==
    IF Len(batch) > 0 /\ batch[1] > 0 THEN batch[1] ELSE defaultBatchNumber

\* the loop of DoBatchInsert: i is the row of the round; pc is "loop" inside
\* a round, "exec" when DoExec is called, "wait" while the statement is with
\* the connection and "done" when the call has returned
NoBatch ==
    [i |-> 1, params |-> <<>>, valueHolder |-> <<>>, stmts |-> <<>>, err |-> Nil,
     affected |-> 0, pc |-> "loop"]

\* whether params and valueHolder are emptied after a statement
KeepAfterStatement(st) == st

ResetAfterStatement(st) == [st EXCEPT !.params = <<>>, !.valueHolder = <<>>]

ErrRowsAffected == "rows affected failed"

\* the most a driver reports for one row of a statement: 2 for a row that
\* replaces or updates one
MaxPerRow == 2

\* what the connection answers to one statement: ExecContext fails, or it
\* returns a result whose RowsAffected fails or reports rows
Driver(ok, countOk, rows) ==
    [result |-> IF ok THEN DriverResult(rows, 1) ELSE NilDriverResult,
     err |-> IF ok THEN Nil ELSE ErrExec,
     countOk |-> countOk]

\* one round of the loop over listMap, up to the call of DoExec
BatchStep(st, list, keys, batchNum, head, tail) ==
    LET params == st.params \o RowParams(list[st.i], keys)
        holder == Append(st.valueHolder,
                         <<"(">> \o JoinWith(RowTexts(list[st.i], keys), ",") \o <<")">>)
    IN IF Len(holder) = batchNum \/ (st.i = Len(list) /\ Len(holder) > 0)
       THEN [st EXCEPT !.stmts = Append(@, formatSql(head \o JoinWith(holder, ",") \o tail,
                                                    params)),
                       !.params = params, !.valueHolder = holder, !.pc = "exec"]
       ELSE [st EXCEPT !.params = params, !.valueHolder = holder, !.i = @ + 1]

\* the rounds from row st.i on, up to the next call of DoExec or to the end
\* of the list
RECURSIVE BatchFrom(_, _, _, _, _, _)
BatchFrom(st, list, keys, batchNum, head, tail) ==
    IF st.pc # "loop" THEN st
    ELSE IF st.i > Len(list) THEN [st EXCEPT !.pc = "done"]
    ELSE BatchFrom(BatchStep(st, list, keys, batchNum, head, tail),
                   list, keys, batchNum, head, tail)

\* DoBatchInsert from the state st of its loop on, up to the next call of
\* DoExec or to its return
DoBatchInsert(st, tables, list, option, batch) ==
    IF Len(list) < 1
    THEN [st EXCEPT !.err = ErrEmptyList, !.pc = "done"]
    ELSE LET keys == RowKeys(list[1])
             keysStr == JoinWith([i \in 1..Len(keys) |->
                                    <<GetChars.left \o keys[i] \o GetChars.right>>], ",")
             head == <<GetInsertOperationByOption(option), " INTO ",
                       QuotePrefixTableName(tables), "(">> \o keysStr \o <<") VALUES">>
             tail == <<" ">> \o UpdateStr(option, keys)
         IN BatchFrom(st, list, keys, BatchNumber(batch), head, tail)

\* the round after DoExec has returned: under dry run DoExec has not called
\* the connection and returns new(SqlResult); the count of the statement is
\* added to the sum
BatchResult(st, dry, driver) ==
    LET r == IF dry THEN NewSqlResult ELSE RawResult(driver.result)
        err == IF dry THEN Nil ELSE formatError(driver.err, "INSERT")
    IN IF err # Nil
       THEN [st EXCEPT !.err = err, !.pc = "done"]
       ELSE IF ~r.wrapper /\ ~driver.countOk
       THEN [st EXCEPT !.err = ErrRowsAffected, !.pc = "done"]
       ELSE ResetAfterStatement([st EXCEPT !.affected = @ + RowsAffected(r),
                                           !.i = @ + 1, !.pc = "loop"])

\* the data of an update: a string, or a record
StringData(text) == [kind |-> "string", text |-> text, row |-> <<>>]

MapData(row) == [kind |-> "map", text |-> <<>>, row |-> row]

\* updates and params of DoUpdate
Updates(data) ==
    IF data.kind = "map"
    THEN [text |-> JoinWith([i \in 1..Len(data.row) |->
                               QuoteWord(<<data.row[i].key>>)
                                  \o <<"=", ValueText(data.row[i].value)>>], ","),
          params |-> SelectSeq([i \in 1..Len(data.row) |-> data.row[i].value], IsBound)]
    ELSE [text |-> data.text, params |-> <<>>]

----------------------------------------------------------------------------
(* The statements of Model.Delete, and the compositions as actions *)

\* what formatCondition returns: conditionWhere, conditionExtra, conditionArgs
Condition(where, extra, args) == [where |-> where, extra |-> extra, args |-> args]

Conditions ==
    {Condition(<<>>, <<>>, <<>>),
     Condition(<<>>, <<" LIMIT 1">>, <<>>),
     Condition(<<WhereKeyWord, "a=", Holder>>, <<>>, <<ScalarArg("1")>>),
     Condition(<<" where ", "a=1">>, <<>>, <<>>),
     Condition(<<WhereKeyWord, "a=", Holder, " AND b=", Holder>>, <<" LIMIT 1">>,
               <<ScalarArg("1"), ScalarArg("2")>>),
     Condition(<<WhereKeyWord, "a IN(", Holder, ",", Holder, ")", " AND b=", Holder>>,
               <<>>, <<ScalarArg("1"), ScalarArg("2"), BytesArg("john")>>)}

\* gstr.ContainsI(conditionStr, " WHERE ")
ContainsWhere(conditionStr) == PosWhere(conditionStr) # 0

\* the arguments Delete hands to DoUpdate: one slice, the time stamp first
SoftDeleteArgsStampLast(conditionArgs) == <<SliceArg(conditionArgs \o <<Timestamp>>)>>

SoftDeleteArgs(conditionArgs) == <<SliceArg(<<Timestamp>> \o conditionArgs)>>

\* the statement DoExec gets from DoUpdate when data is a string
DoUpdate(tables, data, condition, args) ==
    LET r == formatSql(<<"UPDATE ", QuotePrefixTableName(tables), " SET ">>
                          \o Updates(data).text \o condition,
                       Updates(data).params \o args)
    IN [sql |-> r.sql, args |-> r.args]

\* the statement DoExec gets from DoDelete
DoDelete(tables, condition, args) ==
    LET r == formatSql(<<"DELETE FROM ", QuotePrefixTableName(tables)>> \o condition,
                       args)
    IN [sql |-> r.sql, args |-> r.args]

NoFormat == [done |-> FALSE, sql |-> <<>>, args |-> <<>>]

NoDelete ==
    [kind |-> "none", unscoped |-> FALSE, field |-> "",
     cond |-> Condition(<<>>, <<>>, <<>>), stmts |-> <<>>, err |-> Nil]

SqlInit ==
    /\ sqlIn \in [sql : SqlTexts, args : ArgLists]
    /\ sqlOut = NoFormat
    /\ deleted = NoDelete

SqlIdle ==
    /\ sqlIn = [sql |-> <<>>, args |-> <<>>]
    /\ sqlOut = NoFormat
    /\ deleted = NoDelete

\* formatSql is applied to the text and the arguments
FormatSql ==
    /\ sqlOut = NoFormat
    /\ deleted = NoDelete
    /\ LET r == formatSql(sqlIn.sql, sqlIn.args)
       IN sqlOut' = [done |-> TRUE, sql |-> r.sql, args |-> r.args]
    /\ UNCHANGED <<sqlIn, deleted, sqlFrame>>

\* Model.Delete: the statements it hands to DoExec, in the form formatSql
\* gives them, and the error it returns
DeleteStatement(unscoped, fieldNameDelete, cond, ok) ==
    /\ deleted = NoDelete
    /\ LET conditionStr == cond.where \o cond.extra
           soft == ~unscoped /\ fieldNameDelete # ""
           stmts ==
               IF soft
               THEN <<DoUpdate(TableName,
                               StringData(<<QuoteString(fieldNameDelete) \o "=", Holder>>),
                               conditionStr, SoftDeleteArgs(cond.args))>>
               ELSE IF ~ContainsWhere(conditionStr) THEN <<>>
               ELSE <<DoDelete(TableName, conditionStr, cond.args)>>
       IN deleted' = [kind |-> "delete", unscoped |-> unscoped,
                      field |-> fieldNameDelete, cond |-> cond, stmts |-> stmts,
                      err |-> IF stmts = <<>> THEN ErrNoWhere
                              ELSE IF ok THEN Nil
                              ELSE formatError(ErrExec, "DELETE")]
    /\ UNCHANGED <<sqlIn, sqlOut, sqlFrame>>

\* the caller takes the result; the next Delete starts after that
DeleteReturned ==
    /\ deleted # NoDelete
    /\ deleted' = NoDelete
    /\ UNCHANGED <<sqlIn, sqlOut, sqlFrame>>

SqlNext ==
    \/ FormatSql
    \/ \E unscoped \in BOOLEAN, fieldNameDelete \in {"", "deleted_at"},
          cond \in Conditions, ok \in BOOLEAN :
          DeleteStatement(unscoped, fieldNameDelete, cond, ok)
    \/ DeleteReturned

WhereTexts == {<<"x">>, <<"uid>=">>, <<"x=1">>, <<"x IN (", Holder, ")">>}

MapPairs == [key : WhereKeys, value : WhereValues]

WhereInputs ==
    {StringWhere(t) : t \in WhereTexts}
    \cup {MapWhere(<<p>>) : p \in MapPairs}
    \cup {MapWhere(<<p, q>>) :
            p \in MapPairs, q \in [key : PlainKeys, value : WhereValues]}
    \cup {SliceWhere(<<ScalarArg("x"), v>>) : v \in WhereValues}
    \cup {SliceWhere(<<ScalarArg("x"), v, ScalarArg("y"), ScalarArg("1")>>) : v \in WhereValues}
    \cup {SliceWhere(<<ScalarArg("x=1")>>)}

WhereArgs == {<<>>} \cup {<<v>> : v \in WhereValues}

NoCompose == [op |-> "none"]

ComposeIdle == composed = NoCompose

ComposeInit == composed = NoCompose

\* formatWhere on one fragment of a condition
FormatWhere(where, args, omitEmpty) ==
    /\ composed = NoCompose
    /\ where.kind = "map" => \A i, j \in 1..Len(where.pairs) :
                                 where.pairs[i].key = where.pairs[j].key => i = j
    /\ where.kind # "string" => args = <<>>
    /\ LET r == formatWhere(where, args, omitEmpty)
       IN composed' = [op |-> "formatWhere", where |-> where, args |-> args,
                       omitEmpty |-> omitEmpty, sql |-> r.sql, out |-> r.args]
    /\ UNCHANGED composeFrame

DataValues == {ScalarArg("1"), RawArg("NOW()")}

DataKeys == <<"a", "b">>

\* records over the keys a and b, and the record with no key
DataRows ==
    {<<>>} \cup {<<[key |-> DataKeys[1], value |-> v]>> : v \in DataValues}
    \cup {<<[key |-> DataKeys[1], value |-> v], [key |-> DataKeys[2], value |-> w]>> :
            v \in DataValues, w \in DataValues}

\* which rows of a list hold a Raw value under b
RawPatterns == {"none", "odd", "all"}

RawAt(pattern, i) == pattern = "all" \/ (pattern = "odd" /\ i % 2 = 1)

\* a list of n rows, told apart by their values
ListOf(n, pattern) ==
    [i \in 1..n |->
        <<[key |-> DataKeys[1], value |-> ScalarArg(ToString(i))],
          [key |-> DataKeys[2],
           value |-> IF RawAt(pattern, i) THEN RawArg("NOW()")
                     ELSE ScalarArg("b" \o ToString(i))]>>]

Batches == {<<>>} \cup {<<b>> : b \in (0 - 1)..3}

\* the answers to a statement of so many rows: a row counts 0 when it is
\* skipped, 2 when it replaces one
Drivers(rows) ==
    {Driver(FALSE, TRUE, 0), Driver(TRUE, FALSE, 0)}
    \cup {Driver(TRUE, TRUE, k) : k \in 0..(MaxPerRow * rows)}

\* Core.DoInsert on one record
InsertStatement(data, option, order, ok) ==
    /\ composed = NoCompose
    /\ composed' =
          IF Len(data) = 0
          THEN [op |-> "DoInsert", data |-> data, option |-> option, stmts |-> <<>>,
                err |-> ErrEmptyUpdate]
          ELSE [op |-> "DoInsert", data |-> data, option |-> option,
                stmts |-> <<DoInsert(TableName, data, option, order)>>,
                err |-> IF ok THEN Nil ELSE formatError(ErrExec, "INSERT")]
    /\ UNCHANGED composeFrame

\* Core.DoUpdate with the data, the condition and its arguments
UpdateStatement(data, cond, ok) ==
    /\ composed = NoCompose
    /\ composed' =
          IF Len(Updates(data).text) = 0
          THEN [op |-> "DoUpdate", data |-> data, cond |-> cond, stmts |-> <<>>,
                err |-> ErrEmptyUpdate]
          ELSE [op |-> "DoUpdate", data |-> data, cond |-> cond,
                stmts |-> <<DoUpdate(TableName, data, cond.where \o cond.extra,
                                     cond.args)>>,
                err |-> IF ok THEN Nil ELSE formatError(ErrExec, "UPDATE")]
    /\ UNCHANGED composeFrame

\* Core.DoBatchInsert on a list of n rows, up to its first call of DoExec
BatchInsertStatements(n, pattern, option, batch) ==
    /\ composed = NoCompose
    /\ LET r == DoBatchInsert(NoBatch, TableName, ListOf(n, pattern), option, batch)
       IN composed' = [op |-> "DoBatchInsert", n |-> n, pattern |-> pattern,
                       option |-> option, batch |-> batch, failed |-> 0,
                       failure |-> "none", dry |-> FALSE, flag |-> FALSE,
                       pc |-> r.pc, i |-> r.i, params |-> r.params,
                       valueHolder |-> r.valueHolder, stmts |-> r.stmts,
                       err |-> r.err, affected |-> r.affected]
    /\ UNCHANGED composeFrame

\* DoExec of the statement up to the answer of the connection: it reads the
\* dry run flag, and hands the statement to ExecContext when the flag is
\* not set; flag is what it read
BatchInsertExec ==
    /\ composed.op = "DoBatchInsert"
    /\ composed.pc = "exec"
    /\ composed' = [composed EXCEPT !.pc = "wait", !.flag = GetDryRun]
    /\ UNCHANGED composeFrame

\* DoExec returns with the answer of the connection, or with new(SqlResult)
\* when it read the flag as set, whatever the flag is by now; the loop goes
\* on to the next call of DoExec or returns
BatchInsertAnswer(driver) ==
    /\ composed.op = "DoBatchInsert"
    /\ composed.pc = "wait"
    /\ driver \in IF composed.flag THEN {Driver(TRUE, TRUE, 0)}
                  ELSE Drivers(Len(composed.valueHolder))
    /\ LET r == DoBatchInsert(BatchResult(composed, composed.flag, driver), TableName,
                              ListOf(composed.n, composed.pattern), composed.option,
                              composed.batch)
           fails == ~composed.flag /\ (driver.err # Nil \/ ~driver.countOk)
       IN composed' = [r EXCEPT !.failed = IF fails THEN Len(composed.stmts) ELSE 0,
                                !.failure = IF ~fails THEN "none"
                                            ELSE IF driver.err # Nil THEN "exec"
                                            ELSE "count",
                                !.dry = @ \/ composed.flag,
                                !.flag = FALSE]
    /\ UNCHANGED composeFrame

ComposeReturned ==
    /\ composed # NoCompose
    /\ composed.op = "DoBatchInsert" => composed.pc = "done"
    /\ composed' = NoCompose
    /\ UNCHANGED composeFrame

\* the inputs a call can start with: none while a call is in progress
WhenIdle(inputs) == IF composed = NoCompose THEN inputs ELSE {}

ComposeNext ==
    \/ \E where \in WhenIdle(WhereInputs), args \in WhereArgs, omitEmpty \in BOOLEAN :
          FormatWhere(where, args, omitEmpty)
    \/ \E data \in WhenIdle(DataRows), option \in {"insert", "save"}, ok \in BOOLEAN :
          \E order \in Orders(Len(data)) : InsertStatement(data, option, order, ok)
    \/ \E data \in WhenIdle({MapData(r) : r \in DataRows}
                               \cup {StringData(<<"a=a+1">>), StringData(<<>>)}),
          cond \in Conditions, ok \in BOOLEAN :
          UpdateStatement(data, cond, ok)
    \/ \E n \in WhenIdle(0..MaxList), pattern \in RawPatterns,
          option \in {"insert", "replace"}, batch \in Batches :
          BatchInsertStatements(n, pattern, option, batch)
    \/ BatchInsertExec
    \/ \E driver \in Drivers(MaxList) : BatchInsertAnswer(driver)
    \/ \E enabled \in BOOLEAN : SetDryRun(enabled)
    \/ ComposeReturned

----------------------------------------------------------------------------
(* Results onto targets: Record.Struct, Result.Structs, Model.Struct,      *)
(* Model.Structs, Model.Scan                                               *)

\* what the caller passes as pointer: a struct by value, a nil *struct, a
\* *struct, a **struct (val is "nil" when the inner pointer is nil), or a
\* pointer to a slice of structs or of struct pointers
ValueTarget == [kind |-> "value", val |-> "zero", elemPtr |-> FALSE, items |-> <<>>]

NilTarget == [kind |-> "nil", val |-> "nil", elemPtr |-> FALSE, items |-> <<>>]

StructTarget(val) == [kind |-> "struct", val |-> val, elemPtr |-> FALSE, items |-> <<>>]

PtrTarget(val) == [kind |-> "ptrptr", val |-> val, elemPtr |-> FALSE, items |-> <<>>]

SliceTarget(elemPtr, items) ==
    [kind |-> "slice", val |-> "", elemPtr |-> elemPtr, items |-> items]

\* a record with no column, and a record with columns that gconv.Struct can
\* or cannot convert
EmptyRecord == [cols |-> 0, v |-> "", ok |-> TRUE]

Row(v, ok) == [cols |-> 1, v |-> v, ok |-> ok]

ErrStructParam == "parameter should be type of *struct/**struct"

ErrInvalidPointer == "parameter is an invalid pointer, maybe nil"

ErrConvert == "struct conversion failed"

ErrScanParam == "params should be type of pointer, but got: struct"

\* reflectKind as %v prints it
KindName(pointer) ==
    CASE pointer.kind = "value" -> "struct"
      [] pointer.kind = "nil" -> "invalid"
      [] pointer.kind = "struct" -> "struct"
      [] pointer.kind = "ptrptr" -> "ptr"
      [] OTHER -> "slice"

ErrStructsParam(pointer) ==
    "parameter should be type of *[]struct/*[]*struct, but got: " \o KindName(pointer)

ErrElement(err) == "slice element conversion failed: " \o err

\* empty.IsNil(pointer, true): nil, or a pointer that leads to nil
IsNilTraced(pointer) ==
    pointer.kind = "nil" \/ (pointer.kind = "ptrptr" /\ pointer.val = "nil")

\* Record.IsEmpty
RecordIsEmpty(r) == r.cols = 0

\* gconv.Struct: fills the struct, or fails having filled a part of it or none
convertMapToStruct(r, pointer, partial) ==
    IF r.ok THEN [pointer |-> [pointer EXCEPT !.val = r.v], err |-> Nil]
    ELSE [pointer |-> IF partial THEN [pointer EXCEPT !.val = "partial"] ELSE pointer,
          err |-> ErrConvert]

\* Record.Struct
Struct(r, pointer, partial) ==
    IF RecordIsEmpty(r)
    THEN [pointer |-> pointer, err |-> IF ~IsNilTraced(pointer) THEN ErrNoRows ELSE Nil]
    ELSE CASE pointer.kind \in {"value", "slice"} ->
                 [pointer |-> pointer, err |-> ErrStructParam]
           [] pointer.kind = "nil" -> [pointer |-> pointer, err |-> ErrInvalidPointer]
           [] OTHER -> convertMapToStruct(r, pointer, partial)

\* the element made for a row: reflect.New(itemType.Elem()) or
\* reflect.New(itemType).Elem(); Record.Struct gets it as a reflect.Value
NewElem == StructTarget("zero")

StructElem(r, partial) ==
    IF RecordIsEmpty(r) THEN [pointer |-> NewElem, err |-> ErrNoRows]
    ELSE convertMapToStruct(r, NewElem, partial)

\* when the slice of the caller is set
SetSliceWithPrefix(target, array, err) == [target EXCEPT !.items = array]

SetSlice(target, array, err) ==
    IF err = Nil THEN [target EXCEPT !.items = array] ELSE target

\* Result.Structs
Structs(r, target, partial) ==
    IF target.kind # "slice"
    THEN [pointer |-> target, err |-> ErrStructsParam(target)]
    ELSE IF Len(r) = 0
    THEN [pointer |-> target,
          err |-> IF Len(target.items) > 0 /\ ~target.elemPtr THEN ErrNoRows ELSE Nil]
    ELSE LET F[i \in 0..Len(r)] ==
                 IF i = 0 THEN [array |-> <<>>, err |-> Nil]
                 ELSE IF F[i - 1].err # Nil THEN F[i - 1]
                 ELSE LET e == StructElem(r[i], partial)
                      IN IF e.err # Nil
                         THEN [array |-> F[i - 1].array, err |-> ErrElement(e.err)]
                         ELSE [array |-> Append(F[i - 1].array, e.pointer.val),
                               err |-> Nil]
             done == F[Len(r)]
         IN [pointer |-> SetSlice(target, done.array, done.err), err |-> done.err]

\* Model.One: the first row, or a nil record
One(rows) == IF Len(rows) > 0 THEN rows[1] ELSE EmptyRecord

\* Model.Struct and Model.Structs after the query
ModelStruct(rows, queryOk, pointer, partial) ==
    IF ~queryOk THEN [pointer |-> pointer, err |-> formatError(ErrQuery, QueryText)]
    ELSE Struct(One(rows), pointer, partial)

ModelStructs(rows, queryOk, pointer, partial) ==
    IF ~queryOk THEN [pointer |-> pointer, err |-> formatError(ErrQuery, QueryText)]
    ELSE Structs(rows, pointer, partial)

\* Model.Scan
Scan(rows, queryOk, pointer, partial) ==
    IF pointer.kind = "value" THEN [pointer |-> pointer, err |-> ErrScanParam]
    ELSE IF pointer.kind = "slice" THEN ModelStructs(rows, queryOk, pointer, partial)
    ELSE ModelStruct(rows, queryOk, pointer, partial)

Records == {EmptyRecord, Row("r1", TRUE), Row("bad", FALSE)}

RowSets == UNION {[1..n -> Records] : n \in 0..MaxRecords}

OldItems == <<"old1", "old2">>

Targets ==
    {ValueTarget, NilTarget, StructTarget("zero"), StructTarget("old"),
     PtrTarget("nil"), PtrTarget("old")}
    \cup {SliceTarget(p, SubSeq(OldItems, 1, n)) : p \in BOOLEAN, n \in 0..2}

NoMapping == [op |-> "none"]

MapIdle == mapped = NoMapping

MapInit == mapped = NoMapping

Mapping(op, rows, queryOk, before, r) ==
    [op |-> op, rows |-> rows, queryOk |-> queryOk, before |-> before,
     after |-> r.pointer, err |-> r.err]

\* Result.Structs on a result
ResultStructs(rows, target, partial) ==
    /\ mapped = NoMapping
    /\ mapped' = Mapping("Result.Structs", rows, TRUE, target,
                         Structs(rows, target, partial))
    /\ UNCHANGED mapFrame

\* Record.Struct on a record
RecordStruct(r, pointer, partial) ==
    /\ mapped = NoMapping
    /\ mapped' = Mapping("Record.Struct", <<r>>, TRUE, pointer,
                         Struct(r, pointer, partial))
    /\ UNCHANGED mapFrame

\* Model.Struct, Model.Structs or Model.Scan: the query, then the mapping
ModelRead(method, rows, queryOk, pointer, partial) ==
    /\ mapped = NoMapping
    /\ mapped' =
          Mapping(method, rows, queryOk, pointer,
                  CASE method = "Model.Struct" ->
                          ModelStruct(rows, queryOk, pointer, partial)
                    [] method = "Model.Structs" ->
                          ModelStructs(rows, queryOk, pointer, partial)
                    [] OTHER -> Scan(rows, queryOk, pointer, partial))
    /\ UNCHANGED mapFrame

MappingReturned ==
    /\ mapped # NoMapping
    /\ mapped' = NoMapping
    /\ UNCHANGED mapFrame

MapNext ==
    \/ \E rows \in RowSets, target \in Targets, partial \in BOOLEAN :
          ResultStructs(rows, target, partial)
    \/ \E r \in Records, pointer \in Targets, partial \in BOOLEAN :
          RecordStruct(r, pointer, partial)
    \/ \E method \in {"Model.Struct", "Model.Structs", "Model.Scan"}, rows \in RowSets,
          queryOk \in BOOLEAN, pointer \in Targets, partial \in BOOLEAN :
          ModelRead(method, rows, queryOk, pointer, partial)
    \/ MappingReturned

----------------------------------------------------------------------------
(* Instance and the accessors of the configuration, step by step *)

\* the goroutines: one calls Instance, one the accessors GetConfig,
\* GetDefaultGroup and IsConfigured, one the mutators
Caller == "i1"

Reader == "r1"

Mutator == "m1"

\* no mutation call is in progress
Quiet == \A m \in Mutators : mut[m].pc = "idle"

\* what a call saw when it started
NoOpen == [ver |-> 0, quiet |-> FALSE]

NoAccessor ==
    [pc |-> "idle", op |-> "", arg |-> "", out |-> "", opened |-> NoOpen,
     changed |-> FALSE]

\* started and built count the calls and the DB objects; open and acc hold
\* the calls in progress; calls lists the calls that returned, in that order
NoAccess ==
    [started |-> 0, built |-> 0, open |-> [i \in Callers |-> NoOpen],
     acc |-> NoAccessor, calls |-> <<>>]

AccessIdle == access = NoAccess

AccessInit ==
    /\ configs \in {[g \in {DefaultGroup, SpareGroup} |-> <<NodeA>>]}
    /\ internalCache = <<>>
    /\ dataMu = ""
    /\ pools = <<>>
    /\ gPc = [g \in Goroutines |-> "idle"]
    /\ gCall = [g \in Goroutines |-> NoCall]
    /\ coreFlags = [c \in Cores |-> [debug |-> FALSE, dryRun |-> FALSE]]
    /\ ConfigIdle
    /\ access = NoAccess

\* the call, what it returned, whether it changed the instances map, the
\* number of assignments to the registry made before it returned, and whether
\* it was calm: no mutation call was in progress when it started or when it
\* returned, and no assignment to the registry was made in between
Accessed(op, arg, out, opened, changed) ==
    [op |-> op, arg |-> arg, out |-> out, ver |-> ver,
     calm |-> opened.quiet /\ Quiet /\ opened.ver = ver, changed |-> changed]

\* Instance(name) is called: the default group is read without the lock
InstanceCall(i, name) ==
    /\ inst[i].pc = "idle"
    /\ access.started < MaxCalls
    /\ \E group \in ReadGroup :
          inst' = [inst EXCEPT ![i] =
                     [NoInstance EXCEPT !.pc = "search",
                         !.group = IF name # "" THEN name ELSE group]]
    /\ access' = [access EXCEPT !.started = @ + 1,
                     !.open[i] = [ver |-> ver, quiet |-> Quiet]]
    /\ UNCHANGED <<configsGroup, rw, instances, instMu, mut, ver, returnedVer>>
    /\ UNCHANGED accessFrame

\* the body of New and of getConfigNodeByGroup, then the deferred RUnlock;
\* each object New makes is another one
BuildObject(i) ==
    /\ inst[i].pc = "build"
    /\ \E res \in NewResults(configs, inst[i].groupName, ver) :
          inst' = [inst EXCEPT ![i].pc = "store", ![i].err = res.err,
                      ![i].db = IF res.db = NilDB THEN NilDB
                                ELSE [id |-> access.built + 1, group |-> res.db.group,
                                      config |-> res.db.config, ver |-> res.db.ver]]
    /\ rw' = [rw EXCEPT !.readers = @ \ {i}]
    /\ access' = [access EXCEPT !.built = @ + 1]
    /\ UNCHANGED <<configsGroup, instances, instMu, mut, ver, returnedVer>>
    /\ UNCHANGED accessFrame

\* Instance returns the object, or the error of New
InstanceReturned(i) ==
    /\ inst[i].pc = "return"
    /\ inst' = [inst EXCEPT ![i] = NoInstance]
    /\ access' = [access EXCEPT !.open[i] = NoOpen,
                     !.calls = Append(@, Accessed("Instance", inst[i].group, inst[i].db,
                                                  access.open[i], FALSE))]
    /\ UNCHANGED <<configsGroup, rw, instances, instMu, mut, ver, returnedVer>>
    /\ UNCHANGED accessFrame

\* the registry of calls once the accessor op is called with arg
Called(op, arg) ==
    [access EXCEPT !.started = @ + 1,
        !.acc = [NoAccessor EXCEPT !.pc = "rlock", !.op = op, !.arg = arg,
                    !.opened = [ver |-> ver, quiet |-> Quiet]]]

\* GetConfig(group) is called
GetConfig(group) ==
    /\ access.acc.pc = "idle"
    /\ access.started < MaxCalls
    /\ access' = Called("GetConfig", group)
    /\ UNCHANGED <<configsGroup, rw, instances, instMu, mut, inst, ver, returnedVer>>
    /\ UNCHANGED accessFrame

\* GetDefaultGroup() is called: it defers instances.Clear() first
GetDefaultGroup ==
    /\ access.acc.pc = "idle"
    /\ access.started < MaxCalls
    /\ access' = Called("GetDefaultGroup", "")
    /\ UNCHANGED <<configsGroup, rw, instances, instMu, mut, inst, ver, returnedVer>>
    /\ UNCHANGED accessFrame

\* IsConfigured() is called
IsConfigured ==
    /\ access.acc.pc = "idle"
    /\ access.started < MaxCalls
    /\ access' = Called("IsConfigured", "")
    /\ UNCHANGED <<configsGroup, rw, instances, instMu, mut, inst, ver, returnedVer>>
    /\ UNCHANGED accessFrame

\* configs.RLock(): blocks while a writer holds or waits for the lock
AccessorRLock ==
    /\ access.acc.pc = "rlock"
    /\ rw.w = ""
    /\ rw' = [rw EXCEPT !.readers = @ \cup {Reader}]
    /\ access' = [access EXCEPT !.acc.pc = "read"]
    /\ UNCHANGED <<configsGroup, instances, instMu, mut, inst, ver, returnedVer>>
    /\ UNCHANGED accessFrame

\* the value the accessor returns
AccessorValue(op, arg) ==
    CASE op = "GetConfig" -> IF arg \in DOMAIN configs THEN configs[arg] ELSE <<>>
      [] op = "GetDefaultGroup" -> configsGroup
      [] OTHER -> DOMAIN configs # {}

\* the read under the shared lock, then the deferred configs.RUnlock()
AccessorRead ==
    /\ access.acc.pc = "read"
    /\ rw' = [rw EXCEPT !.readers = @ \ {Reader}]
    /\ access' = [access EXCEPT
                     !.acc.out = AccessorValue(access.acc.op, access.acc.arg),
                     !.acc.pc = IF access.acc.op = "GetDefaultGroup" THEN "clear"
                                ELSE "return"]
    /\ UNCHANGED <<configsGroup, instances, instMu, mut, inst, ver, returnedVer>>
    /\ UNCHANGED accessFrame

\* the deferred instances.Clear() of GetDefaultGroup, under the lock of the map
AccessorClear ==
    /\ access.acc.pc = "clear"
    /\ instMu = ""
    /\ instances' = <<>>
    /\ access' = [access EXCEPT !.acc.pc = "return",
                     !.acc.changed = instances # <<>>]
    /\ UNCHANGED <<configsGroup, rw, instMu, mut, inst, ver, returnedVer>>
    /\ UNCHANGED accessFrame

\* the accessor returns to its caller
AccessorReturn ==
    /\ access.acc.pc = "return"
    /\ access' = [access EXCEPT !.acc = NoAccessor,
                     !.calls = Append(@, Accessed(access.acc.op, access.acc.arg,
                                                  access.acc.out, access.acc.opened,
                                                  access.acc.changed))]
    /\ UNCHANGED <<configsGroup, rw, instances, instMu, mut, inst, ver, returnedVer>>
    /\ UNCHANGED accessFrame

\* the mutations that run beside the accessors: those of the default group
AccessMutations == {op \in MutationOps : op.kind \in {"SetDefaultGroup"}}

AccessNext ==
    \/ \E i \in {Caller}, name \in {"", DefaultGroup} : InstanceCall(i, name)
    \/ \E i \in {Caller} : Search(i)
    \/ \E i \in {Caller} : SetLock(i)
    \/ \E i \in {Caller} : New(i)
    \/ \E i \in {Caller} : RLock(i)
    \/ \E i \in {Caller} : BuildObject(i)
    \/ \E i \in {Caller} : Store(i)
    \/ \E i \in {Caller} : InstanceReturned(i)
    \/ \E group \in {DefaultGroup} : GetConfig(group)
    \/ GetDefaultGroup
    \/ IsConfigured
    \/ AccessorRLock
    \/ AccessorRead
    \/ AccessorClear
    \/ AccessorReturn
    \/ \E m \in {Mutator}, op \in AccessMutations : MutationCall(m, op)
    \/ \E m \in {Mutator} : Lock(m)
    \/ \E m \in {Mutator} : LockAcquired(m)
    \/ \E m \in {Mutator} : Write(m)
    \/ \E m \in {Mutator} : Unlock(m)
    \/ \E m \in {Mutator} : Clear(m)
    \/ \E m \in {Mutator} : MutationReturn(m)

----------------------------------------------------------------------------
(* Specifications *)

TxIdle ==
    /\ txPc = "done"
    /\ txLog = <<>>
    /\ pending = {}
    /\ store = {}
    /\ commitCalls = 0
    /\ rollbackCalls = 0
    /\ begun = FALSE
    /\ fRan = FALSE
    /\ fResult = NoResult
    /\ finishErr = Nil
    /\ ret = Nil
    /\ panicOut = FALSE

TxStart ==
    TxInit /\ CacheIdle /\ PoolIdle /\ RouterIdle /\ ConfigIdle /\ ExecIdle
    /\ SqlIdle /\ ComposeIdle /\ MapIdle /\ AccessIdle

SpecTx == TxStart /\ [][TxNext]_vars

CacheStart ==
    CacheInit /\ TxIdle /\ PoolIdle /\ RouterIdle /\ ConfigIdle /\ ExecIdle
    /\ SqlIdle /\ ComposeIdle /\ MapIdle /\ AccessIdle

SpecCache == CacheStart /\ [][CacheNext]_vars

PoolStart ==
    PoolInit /\ TxIdle /\ CacheIdle /\ RouterIdle /\ ConfigIdle /\ ExecIdle
    /\ SqlIdle /\ ComposeIdle /\ MapIdle /\ AccessIdle

SpecPool == PoolStart /\ [][PoolNext]_vars

RouterStart ==
    RouterInit /\ TxIdle /\ CacheIdle /\ ConfigIdle /\ ExecIdle /\ SqlIdle
    /\ ComposeIdle /\ MapIdle /\ AccessIdle

SpecRouter == RouterStart /\ [][RouterNext]_vars

ConfigStart ==
    ConfigInit /\ TxIdle /\ CacheIdle /\ RouterIdle /\ ExecIdle /\ SqlIdle
    /\ ComposeIdle /\ MapIdle /\ AccessIdle

SpecConfig == ConfigStart /\ [][ConfigNext]_vars

ExecStart ==
    ExecInit /\ TxIdle /\ CacheIdle /\ PoolIdle /\ RouterIdle /\ ConfigIdle
    /\ SqlIdle /\ ComposeIdle /\ MapIdle /\ AccessIdle

SpecExec == ExecStart /\ [][ExecNext]_vars

SqlStart ==
    SqlInit /\ TxIdle /\ CacheIdle /\ PoolIdle /\ RouterIdle /\ ConfigIdle
    /\ ExecIdle /\ ComposeIdle /\ MapIdle /\ AccessIdle

SpecSql == SqlStart /\ [][SqlNext]_vars

ComposeStart ==
    ComposeInit /\ TxIdle /\ CacheIdle /\ PoolIdle /\ RouterIdle /\ ConfigIdle
    /\ ExecIdle /\ SqlIdle /\ MapIdle /\ AccessIdle

SpecCompose == ComposeStart /\ [][ComposeNext]_vars

MapStart ==
    MapInit /\ TxIdle /\ CacheIdle /\ PoolIdle /\ RouterIdle /\ ConfigIdle
    /\ ExecIdle /\ SqlIdle /\ ComposeIdle /\ AccessIdle

SpecMap == MapStart /\ [][MapNext]_vars

AccessStart ==
    AccessInit /\ TxIdle /\ CacheIdle /\ RouterIdle /\ ExecIdle /\ SqlIdle
    /\ ComposeIdle /\ MapIdle

SpecAccess == AccessStart /\ [][AccessNext]_vars

----------------------------------------------------------------------------
(* Claims about Core.Transaction and the transaction handle *)

TxDone == txPc = "done"

WritesOnTx == {txLog[i].write : i \in {j \in 1..Len(txLog) :
                  txLog[j].link = TxLink /\ txLog[j].write # NoWrite}}

\* C1: when Begin succeeded and f returned a non-nil error, Transaction
\* called Rollback exactly once and never Commit, and when the rollback
\* succeeded it returned exactly the error f returned.
C1_ErrorRollsBack ==
    (TxDone /\ begun /\ fResult.kind = "return" /\ fResult.err # Nil)
        => /\ rollbackCalls = 1
           /\ commitCalls = 0
           /\ (finishErr = Nil => ret = fResult.err)

C1_Witness ==
    /\ TxDone /\ begun /\ Len(txLog) = MaxStmts
    /\ fResult.kind = "return" /\ fResult.err = "f failed again"
    /\ finishErr = Nil /\ rollbackCalls = 1 /\ ret = "f failed again"

\* C2: when f panics, the panic does not reach the caller, Transaction
\* returns a non-nil error, Rollback is called, Commit is never called, and
\* no write f issued on the transaction is observable afterwards.
C2_PanicRollsBack ==
    (TxDone /\ fResult.kind = "panic")
        => /\ ~panicOut
           /\ ret # Nil
           /\ rollbackCalls = 1
           /\ commitCalls = 0
           /\ WritesOnTx \cap store = {}

\* C3: when Begin succeeded and f returned nil, Commit is called exactly once
\* and Rollback never, and nil is returned when the commit succeeds; when
\* Begin failed, f is not run and neither Commit nor Rollback is called; a
\* begun transaction sees exactly one of Commit and Rollback.
C3_CommitOnSuccess ==
    /\ (TxDone /\ begun /\ fResult.kind = "return" /\ fResult.err = Nil)
          => /\ commitCalls = 1
             /\ rollbackCalls = 0
             /\ (finishErr = Nil => ret = Nil)
    /\ (TxDone /\ ~begun)
          => /\ ~fRan
             /\ txLog = <<>>
             /\ commitCalls = 0
             /\ rollbackCalls = 0
             /\ ret = ErrBegin
    /\ (TxDone /\ begun) => commitCalls + rollbackCalls = 1

C3_Witness ==
    /\ TxDone /\ begun /\ fRan /\ WritesOnTx # {}
    /\ fResult.kind = "return" /\ fResult.err = Nil
    /\ finishErr = Nil /\ commitCalls = 1 /\ ret = Nil
    /\ WritesOnTx \subseteq store

\* C4: whenever a rollback was attempted and failed, the error returned is
\* the rollback error, in place of the error of f or of the panic.
C4_RollbackErrorWins ==
    (TxDone /\ rollbackCalls > 0 /\ finishErr # Nil) => ret = finishErr

C4_Witness ==
    /\ TxDone /\ rollbackCalls = 1
    /\ fResult.kind = "panic" /\ fResult.pval # NilVal
    /\ finishErr = ErrRollback /\ ret = ErrRollback

\* C5: every statement issued through the transaction handle is executed on
\* the connection of the transaction, never on a pooled connection.
C5_PinnedToTx ==
    \A i \in 1..Len(txLog) : txLog[i].link = TxLink

----------------------------------------------------------------------------
(* Claims about the query cache *)

Fresh(k) == cache[k].set /\ cache[k].exp > now

\* the step by which the operation of g returns
Returns(g, kinds) ==
    /\ last[g].pc # "done"
    /\ last'[g].pc = "done"
    /\ last'[g].kind \in kinds

\* a read outside a transaction of a model with Cache
CachedRead(op) == op.kind = "read" /\ ~op.tx /\ op.enabled

\* C6: a read outside a transaction with Cache(d, K), d > 0, that finds K
\* written and not expired returns the very rows the read that wrote K
\* returned, zero rows included, sends no statement and leaves the cache as
\* it is; one that misses and succeeds leaves its rows under K for the reads
\* that follow.
C6_CacheRoundTrip ==
    [][\A g \in Readers :
          (Returns(g, {"read"}) /\ CachedRead(last'[g]) /\ last'[g].dur > 0)
             => IF last'[g].had
                THEN /\ last'[g].result = returned[last'[g].key]
                     /\ last'[g].err = Nil
                     /\ last'[g].stmt = "none"
                     /\ cache' = cache
                ELSE /\ last'[g].stmt = "SELECT"
                     /\ last'[g].err = Nil
                           => /\ IsLive(cache'[last'[g].key], now')
                              /\ cache'[last'[g].key].val = last'[g].result
                              /\ returned'[last'[g].key] = last'[g].result]_vars

C6_Witness ==
    \E g \in Readers :
        /\ last[g].pc = "done"
        /\ CachedRead(last[g]) /\ last[g].dur > 0 /\ last[g].had
        /\ last[g].key = DerivedKey(Sql, 0)
        /\ last[g].result = NoRows /\ last[g].stmt = "none"
        /\ table > 0

\* C7: a read outside a transaction with Cache(d, K), d < 0, executed while
\* K holds a cached result leaves K out of the cache when it returns.
C7_NegativeReadRemoves ==
    [][\A g \in Readers :
          (Returns(g, {"read"}) /\ CachedRead(last'[g]) /\ last'[g].dur < 0
              /\ last'[g].had)
             => ~cache'[last'[g].key].set]_vars

\* the steps of g while it runs an operation of one of the kinds
Steps(g, kinds) == last'[g] # last[g] /\ last'[g].kind \in kinds

\* C8: no step of a read of a model bound to a transaction changes the
\* cache, and the read returns after it sent its query to the connection,
\* whatever cache policy the model carries.
C8_TxReadBypassesCache ==
    [][\A g \in Readers :
          (Steps(g, {"read"}) /\ last'[g].tx)
             => /\ cache' = cache
                /\ last'[g].pc = "done" => last'[g].stmt = "SELECT"]_vars

C8_Witness ==
    \E g \in Readers :
        /\ last[g].pc = "done"
        /\ last[g].kind = "read" /\ last[g].tx /\ last[g].enabled /\ last[g].dur > 0
        /\ last[g].name = "K" /\ Fresh("K")
        /\ last[g].stmt = "SELECT" /\ last[g].err = Nil
        /\ last[g].result # cache["K"].val

\* C9: a write on a model with Cache(d, name), d < 0 and a name, that returns
\* no error removes the entry of that name and nothing else, after its
\* statement and before it returns; a write that returns an error, or one on
\* a model without such a descriptor, leaves the cache as it was in every
\* step.
C9_WriteInvalidates ==
    [][\A g \in Readers :
          Steps(g, {"insert", "delete"})
             => IF /\ last'[g].pc = "done"
                   /\ last'[g].enabled /\ last'[g].dur < 0 /\ last'[g].name # ""
                   /\ last'[g].err = Nil
                THEN cache' = [cache EXCEPT ![last'[g].name] = NoEntry]
                ELSE cache' = cache]_vars

C9_Witness ==
    \E g \in Readers :
        /\ last[g].pc = "done"
        /\ last[g].kind \in {"insert", "delete"} /\ last[g].stmt # "none"
        /\ last[g].enabled /\ last[g].dur < 0 /\ last[g].name = "K" /\ last[g].had
        /\ last[g].err = Nil
        /\ ~cache["K"].set

----------------------------------------------------------------------------
(* Claims about the cache of pooled connections *)

\* the getSqlDb calls that returned a pool
Served == {g \in Goroutines : gPc[g] = "done" /\ gCall[g].sqlDb # NoPool}

\* Open succeeded at most once per node identity
OpenedOncePerIdentity ==
    \A i, j \in 1..Len(pools) : pools[i].identity = pools[j].identity => i = j

\* callers that resolved the same identity hold the same pool
SameIdentitySamePool ==
    \A g, h \in Served : gCall[g].key = gCall[h].key => gCall[g].sqlDb = gCall[h].sqlDb

\* callers whose nodes differ in database name hold different pools
SchemasApart ==
    \A g, h \in Served :
        gCall[g].node.Name # gCall[h].node.Name => gCall[g].sqlDb # gCall[h].sqlDb

\* C10: under every interleaving of getSqlDb calls, Open succeeds at most
\* once per node identity string, callers that resolve the same identity get
\* the same pool, and callers whose nodes differ in database name never get
\* the same pool.
C10_PoolPerIdentity ==
    /\ OpenedOncePerIdentity
    /\ SameIdentitySamePool
    /\ SchemasApart

----------------------------------------------------------------------------
(* Claims about the router *)

Selected == routed.kind = "select" /\ routed.group = DefaultGroup

HasMaster == \E i \in 1..Len(configs[DefaultGroup]) : IsMaster(configs[DefaultGroup][i])
HasSlave == \E i \in 1..Len(configs[DefaultGroup]) : IsSlave(configs[DefaultGroup][i])

\* C13: for a configured group, getConfigNodeByGroup returns an error for
\* either intent when the group has no master node; otherwise it returns a
\* node and no error, whatever the weights: a non-slave node for the write
\* intent, a slave node for the read intent when the group has one, else a
\* master node.
C13_RouterResult ==
    Selected =>
        IF ~HasMaster
        THEN routed.err = ErrNoMaster /\ routed.node = NilNode
        ELSE /\ routed.err = Nil
             /\ routed.node # NilNode
             /\ IF routed.master \/ ~HasSlave
                THEN IsMaster(routed.node) ELSE IsSlave(routed.node)

\* the sum of the weights of the nodes before position i, times 100
CumBefore(cg, i) ==
    LET S[j \in 0..Len(cg)] == IF j = 0 THEN 0 ELSE S[j - 1] + 100 * cg[j].Weight
    IN S[i - 1]

Weighted(cg) ==
    /\ Len(cg) >= 2
    /\ \A i \in 1..Len(cg) : cg[i].Weight >= 0
    /\ \E i \in 1..Len(cg) : cg[i].Weight # 0

HitsRange(cg, i, r) ==
    r >= CumBefore(cg, i) /\ r < CumBefore(cg, i) + 100 * cg[i].Weight

\* C14: for a candidate list of two or more nodes with non-negative weights
\* that are not all zero, a draw r selects the one node whose cumulative
\* range holds r, that node has a weight other than 0, and over all draws
\* of [0, total-1] node i is selected exactly weight_i * 100 times.
C14_WeightedMapping ==
    /\ (Selected /\ routed.err = Nil /\ Weighted(routed.cands))
          => /\ routed.index \in 1..Len(routed.cands)
             /\ \A i \in 1..Len(routed.cands) :
                   HitsRange(routed.cands, i, routed.r) <=> i = routed.index
             /\ routed.node = routed.cands[routed.index]
             /\ routed.node.Weight # 0
    /\ (routed.kind = "none")
          => \A master \in BOOLEAN :
                LET cg == CandidateList(configs[DefaultGroup], master)
                IN Weighted(cg)
                      => \A i \in 1..Len(cg) :
                            Cardinality({r \in 0..(CumBefore(cg, Len(cg) + 1) - 1) :
                                            WeightIndex(cg, r) = i})
                               = cg[i].Weight * 100

C14_Witness ==
    /\ Selected /\ routed.err = Nil /\ Len(routed.cands) = 2
    /\ routed.cands[1].Weight = 1 /\ routed.cands[2].Weight = 3
    /\ routed.r = 100 /\ routed.index = 2

AllZero(cg) == \A i \in 1..Len(cg) : cg[i].Weight = 0

StoredCandidates ==
    CandidateList(configs[DefaultGroup], routed.master)

\* C15 (as stated): after a selection over a candidate list whose nodes all
\* have weight 0, the group held in the registry shows weight 1 for those
\* nodes.
C15_DefaultingStored ==
    (Selected /\ routed.err = Nil /\ AllZero(routed.cands))
        => \A i \in 1..Len(StoredCandidates) : StoredCandidates[i].Weight = 1

\* C15 (amended): a selection over a candidate list of two or more nodes
\* that all have weight 0 returns a node with weight 1, and no selection
\* changes the registry: the stored nodes keep weight 0 and the next call
\* defaults again.
C15_DefaultingLocal ==
    [][(routed'.kind = "select")
          => /\ configs' = configs
             /\ (routed'.err = Nil /\ Len(routed'.cands) >= 2 /\ AllZero(routed'.cands))
                   => /\ routed'.node # NilNode
                      /\ routed'.node.Weight = 1
                      /\ routed'.index \in 1..Len(routed'.cands)
                      /\ routed'.cands[routed'.index].Weight = 0]_vars

C15_Witness ==
    /\ Selected /\ routed.err = Nil /\ Len(routed.cands) = 2
    /\ AllZero(routed.cands) /\ routed.r >= 100 /\ routed.index = 2
    /\ routed.node.Weight = 1
    /\ AllZero(StoredCandidates)


----------------------------------------------------------------------------
(* The configuration registry: claims *)

Disciplined(a) ==
    IF a.write THEN a.lock = "exclusive"
    ELSE a.lock = "shared" /\ ~a.overlap

\* C11: every assignment to the configuration registry is made while the
\* goroutine holds the exclusive lock, every read of it -- by New, by
\* Instance and by the node lookup of getSqlDb -- is made while the goroutine
\* holds the shared lock, and no read is made while another goroutine is
\* inside its exclusive section assigning the field that is read.
C11_LockDiscipline ==
    [][/\ \A m \in Mutators : mut'[m] # mut[m] /\ mut'[m].pc # "fatal" =>
             \A a \in AccessesAt(m, mut[m].pc) : Disciplined(a)
       /\ \A i \in Callers : inst'[i] # inst[i] /\ inst'[i].pc # "fatal" =>
             \A a \in AccessesAt(i, inst[i].pc) : Disciplined(a)]_vars

InCall ==
    {m \in Mutators : mut[m].pc \notin {"idle", "fatal"}}
    \cup {i \in Callers : inst[i].pc \notin {"idle", "fatal"}}

\* the registry holds no object built before a mutation that has returned
NoStaleInstance ==
    \A k \in DOMAIN instances : instances[k].ver >= returnedVer

\* whenever calls are in progress one of them can take its next step
NoDeadlock ==
    InCall # {} => \E p \in InCall : ~Waiting(p)

\* the object an Instance call takes from the registry or builds reflects
\* every mutation that has returned by then
TakesCurrent ==
    \A i \in Callers :
        inst[i].db = NilDB /\ inst'[i].db # NilDB => inst'[i].db.ver >= returnedVer

\* C12: once a mutation call has returned, the registry of instances holds
\* no DB object built from the configuration before that mutation, so an
\* Instance call made afterwards gets an object built from the
\* configuration of that mutation or a later one; and mutation and Instance
\* calls never block each other for good.
C12_SingletonInvalidation ==
    [](NoStaleInstance /\ NoDeadlock) /\ [][TakesCurrent]_vars

\* a caller still holds an object built before the mutation that has
\* returned, and the registry holds one built after it
C12_Witness ==
    /\ returnedVer >= 1
    /\ \E i \in Callers :
          inst[i].pc = "return" /\ inst[i].db # NilDB /\ inst[i].db.ver < returnedVer
    /\ \E k \in DOMAIN instances : instances[k].ver >= returnedVer

----------------------------------------------------------------------------
(* Statements on a connection: claims *)

\* C16: a DoExec call during which dry run is enabled all the time, by the
\* flag of the node or for all databases, never calls ExecContext, returns
\* a nil error and a result whose RowsAffected and LastInsertId are 0, and
\* emits exactly one trace event; one during which dry run is disabled all
\* the time calls ExecContext exactly once.
C16_DryRun ==
    sent.kind = "exec" =>
        /\ sent.dryAll =>
              /\ sent.linkCalls = 0
              /\ sent.err = Nil
              /\ RowsAffected(sent.result) = 0
              /\ LastInsertId(sent.result) = 0
              /\ sent.pc = "done" => sent.traces = 1
        /\ ~sent.dryAny => sent.linkCalls = 1

\* DoExec ran with dry run enabled for all databases only
C16_Witness ==
    /\ sent.kind = "exec"
    /\ sent.pc = "done"
    /\ sent.dryAll
    /\ allDryRun
    /\ ~core.DryRun
    /\ sent.linkCalls = 0
    /\ sent.traces = 1

\* C17: the context DoQuery, DoExec, DoPrepare and Begin pass to the
\* connection has exactly the caller's deadline when the caller's context
\* has one; the timeout of the kind is attached only when it has none.
C17_TimeoutAttachment ==
    sent.kind \in {"query", "exec", "prepare", "begin"} /\ sent.linkCalls = 1 =>
        IF sent.caller.ok THEN sent.passed = sent.caller
        ELSE LET kind == CASE sent.kind = "query" -> "Query"
                           [] sent.kind = "exec" -> "Exec"
                           [] sent.kind = "prepare" -> "Prepare"
                           [] OTHER -> "Tran"
             IN sent.passed = IF core.timeouts[kind] > 0
                              THEN Deadline(sent.at + core.timeouts[kind])
                              ELSE NoDeadline

----------------------------------------------------------------------------
(* SQL text and arguments: claims *)

SoftDeleted == deleted.kind = "delete" /\ ~deleted.unscoped /\ deleted.field # ""

HardDeleted == deleted.kind = "delete" /\ (deleted.unscoped \/ deleted.field = "")

CondHasWhere ==
    \E i \in 1..Len(deleted.cond.where \o deleted.cond.extra) :
        (deleted.cond.where \o deleted.cond.extra)[i] \in {" WHERE ", " where "}

\* C18: Delete on a table with a soft-delete column, not Unscoped, issues
\* exactly one statement, an UPDATE that sets that column, whose arguments
\* are the time stamp followed by the arguments of the condition; otherwise
\* it issues one DELETE with the arguments of the condition, or, when the
\* condition has no WHERE, no statement and an error.
C18_SoftDelete ==
    /\ SoftDeleted =>
          /\ Len(deleted.stmts) = 1
          /\ SubSeq(deleted.stmts[1].sql, 1, 5)
                = <<"UPDATE ", "t", " SET ", deleted.field \o "=", "?">>
          /\ SubSeq(deleted.stmts[1].sql, 6, Len(deleted.stmts[1].sql))
                = deleted.cond.where \o deleted.cond.extra
          /\ deleted.stmts[1].args = <<Timestamp>> \o deleted.cond.args
    /\ HardDeleted =>
          IF CondHasWhere
          THEN /\ Len(deleted.stmts) = 1
               /\ deleted.stmts[1].sql
                     = <<"DELETE FROM ", "t">> \o deleted.cond.where \o deleted.cond.extra
               /\ deleted.stmts[1].args = deleted.cond.args
          ELSE deleted.stmts = <<>> /\ deleted.err = ErrNoWhere

\* a soft delete under a condition with two arguments has run
C18_Witness ==
    /\ SoftDeleted
    /\ Len(deleted.cond.args) = 2
    /\ Len(deleted.stmts) = 1
    /\ deleted.stmts[1].args[1] = Timestamp

\* C19: a Delete whose condition has no WHERE returns the usage error and
\* issues no statement, for the physical delete and for the soft delete.
C19_MissingCondition ==
    deleted.kind = "delete" /\ ~CondHasWhere =>
        deleted.stmts = <<>> /\ deleted.err = ErrNoWhere

\* the arguments line up with the placeholders, one to one
OnePerHolder == Len(sqlIn.args) = CountHolders(sqlIn.sql)

\* what an argument stands for after the expansion
Spliced(arg) ==
    IF arg.kind = "slice" /\ Len(arg.elems) > 0 THEN arg.elems
    ELSE IF arg.kind = "gtime" THEN <<ScalarArg(arg.v)>>
    ELSE <<arg>>

\* the expected result, built from the left: each argument spliced, each
\* "?" of a non-empty slice turned into as many
ExpectedArgs ==
    LET E[i \in 0..Len(sqlIn.args)] ==
            IF i = 0 THEN <<>> ELSE E[i - 1] \o Spliced(sqlIn.args[i])
    IN E[Len(sqlIn.args)]

ExpectedSql ==
    LET n == Len(sqlIn.sql)
        ArgOf(p) == Cardinality({j \in 1..p : sqlIn.sql[j] = Holder})
        E[p \in 0..n] ==
            IF p = 0 THEN <<>>
            ELSE IF sqlIn.sql[p] = Holder
            THEN E[p - 1] \o Holders(Len(Spliced(sqlIn.args[ArgOf(p)])))
            ELSE E[p - 1] \o <<sqlIn.sql[p]>>
    IN E[n]

NoEmptySlice ==
    \A i \in 1..Len(sqlIn.args) :
        ~(sqlIn.args[i].kind = "slice" /\ Len(sqlIn.args[i].elems) = 0)

\* C20 as stated: for every argument list with one argument per "?", each
\* non-empty slice is replaced by its elements in order and its "?" becomes
\* that many, the rest keeping its order.
C20_SliceExpansionAnyList ==
    sqlOut.done /\ OnePerHolder =>
        sqlOut.args = ExpectedArgs /\ sqlOut.sql = ExpectedSql

\* C20: for every argument list with one argument per "?" and no empty slice
\* in it, each non-empty slice of length N is replaced by its N elements in
\* order and the "?" it was bound to becomes N placeholders, the other
\* placeholders and arguments keeping their order; also with several slices.
C20_SliceExpansion ==
    sqlOut.done /\ OnePerHolder /\ NoEmptySlice =>
        sqlOut.args = ExpectedArgs /\ sqlOut.sql = ExpectedSql

\* two slices of two elements each were expanded in one list
C20_Witness ==
    /\ sqlOut.done
    /\ OnePerHolder
    /\ Len(sqlIn.args) = 2
    /\ \A i \in 1..2 : sqlIn.args[i].kind = "slice" /\ Len(sqlIn.args[i].elems) = 2
    /\ Len(sqlOut.args) = 4
    /\ CountHolders(sqlOut.sql) = 4

----------------------------------------------------------------------------
(* Conditions: claims *)

Formatted == composed.op = "formatWhere"

EmptySlice == SliceArg(<<>>)

\* the fragment binds an empty slice to the field x
EmptyBoundByArg ==
    /\ Formatted
    /\ composed.where \in {StringWhere(<<"x">>), StringWhere(<<"x IN (", Holder, ")">>)}
    /\ composed.args = <<EmptySlice>>

EmptyBoundByMap ==
    /\ Formatted
    /\ composed.where.kind = "map"
    /\ \E i \in 1..Len(composed.where.pairs) :
          composed.where.pairs[i] = [key |-> <<"x">>, value |-> EmptySlice]

\* 0=1 is in the text, no IN with nothing between the brackets, no argument
AlwaysFalse ==
    /\ \E i \in 1..Len(composed.sql) : composed.sql[i] = "0=1"
    /\ \A i \in 1..(Len(composed.sql) - 1) :
          ~(composed.sql[i] \in {" IN (", " IN("} /\ composed.sql[i + 1] = ")")
    /\ composed.out = <<>>

\* C21 as stated: a fragment that binds an empty slice to x, by an argument
\* of "x" or of "x IN (?)" or by a map entry, composes to text that holds
\* 0=1 and no IN (), with no arguments, whatever the options of the model.
C21_EmptySliceAnyOption == EmptyBoundByArg \/ EmptyBoundByMap => AlwaysFalse

\* C21: a fragment that binds an empty slice to x, by an argument of "x" or
\* of "x IN (?)", or by a map entry when empty values are not filtered out
\* (no OmitEmpty), composes to text that holds 0=1 and no IN (), with no
\* arguments.
C21_EmptySlice ==
    EmptyBoundByArg \/ (EmptyBoundByMap /\ ~composed.omitEmpty) => AlwaysFalse

\* a map of two entries, one of them x with an empty slice, was composed
C21_Witness ==
    /\ EmptyBoundByMap
    /\ ~composed.omitEmpty
    /\ Len(composed.where.pairs) = 2
    /\ composed.sql = <<"0=1">>

\* a map of one entry on a plain field name
PlainEntry ==
    /\ Formatted
    /\ composed.where.kind = "map"
    /\ Len(composed.where.pairs) = 1
    /\ composed.where.pairs[1].key \in PlainKeys

EntryKey == composed.where.pairs[1].key

EntryValue == composed.where.pairs[1].value

\* what formatWhereKeyValue writes for the entry, before the arguments are
\* expanded
EntryWritten == formatWhereKeyValue(NewBuffer, EntryKey, EntryValue)

\* the three shapes of the claim, with the text of the source for IN
MapShapes ==
    CASE EntryValue.kind = "nil" ->
            composed.sql = EntryKey \o <<" IS NULL">> /\ composed.out = <<>>
      [] EntryValue.kind = "slice" /\ Len(EntryValue.elems) > 0 ->
            /\ EntryWritten = [buffer |-> EntryKey \o <<" IN(", Holder, ")">>,
                               args |-> <<EntryValue>>]
            /\ composed.sql
                  = EntryKey \o <<" IN(">> \o Holders(Len(EntryValue.elems)) \o <<")">>
            /\ composed.out = EntryValue.elems
      [] OTHER ->
            composed.sql = EntryKey \o <<"=", Holder>> /\ composed.out = <<EntryValue>>

\* C23 as stated: in a map, a nil value on a plain field name gives
\* field IS NULL and no argument, a non-empty slice gives field IN(?) bound
\* to the elements of the slice in order, any other value gives field=? with
\* the value as the one argument.
C23_MapConditionsAnyValue == PlainEntry => MapShapes

\* C23: in a map composed without OmitEmpty, a nil value on a plain field
\* name gives field IS NULL and no argument, a non-empty slice gives
\* field IN(?) bound to the elements of the slice in order, and a scalar
\* value (not a slice, not []byte, not Raw) gives field=? with the value as
\* the one argument.
C23_MapConditions ==
    PlainEntry /\ ~composed.omitEmpty /\ EntryValue.kind \in {"nil", "slice", "scalar"}
        /\ EntryValue # EmptySlice
        => MapShapes

\* the map {x: [1, 2, 3]} was composed
C23_Witness ==
    /\ PlainEntry
    /\ ~composed.omitEmpty
    /\ EntryValue = SliceArg(SubSeq(Elements, 1, 3))
    /\ composed.out = SubSeq(Elements, 1, 3)
    /\ CountHolders(composed.sql) = 3

----------------------------------------------------------------------------
(* SQL text and arguments: the balance of placeholders and arguments *)

\* C22: for every SQL text and argument list with as many "?" as arguments
\* (slices, empty slices, []byte, time values and scalars anywhere), the SQL
\* that formatSql returns has exactly as many "?" as the argument list it
\* returns has elements.
C22_Balance ==
    sqlOut.done /\ OnePerHolder => CountHolders(sqlOut.sql) = Len(sqlOut.args)

----------------------------------------------------------------------------
(* Data of writes: claims *)

Wrote == composed.op \in {"DoInsert", "DoUpdate", "DoBatchInsert"}

\* the statement has a "?" for each argument and no Raw value among them
StatementBalanced(stmt) ==
    /\ CountHolders(stmt.sql) = Len(stmt.args)
    /\ \A i \in 1..Len(stmt.args) : stmt.args[i].kind # "raw"

\* C24: a Raw value given as insert data, as update data or as the value
\* of a condition key has its text written in place of the placeholder: no
\* "?" and no argument for it, so the SQL has as many "?" as arguments.
C24_RawSpliced ==
    /\ Wrote => \A j \in 1..Len(composed.stmts) : StatementBalanced(composed.stmts[j])
    /\ PlainEntry /\ EntryValue.kind = "raw" =>
          /\ composed.sql = EntryKey \o <<"=", EntryValue.v>>
          /\ composed.out = <<>>
    /\ Formatted /\ composed.where = SliceWhere(<<ScalarArg("x"), RawArg("NOW()")>>) =>
          /\ composed.sql = <<"x", "=", "NOW()">>
          /\ composed.out = <<>>

Batched == composed.op = "DoBatchInsert"

BatchSize == BatchNumber(composed.batch)

\* ceil(n / b)
BatchCount == (composed.n + BatchSize - 1) \div BatchSize

\* a statement failed: the driver rejected it, or it could not tell how
\* many rows the statement affected
Failed == composed.failed # 0

Issued == IF Failed THEN composed.failed ELSE BatchCount

FirstRow(j) == (j - 1) * BatchSize + 1

LastRow(j) == IF j * BatchSize < composed.n THEN j * BatchSize ELSE composed.n

\* the values of the rows lo..hi that are not Raw, row after row
BoundValues(lo, hi) ==
    LET list == ListOf(composed.n, composed.pattern)
        F[i \in (lo - 1)..hi] ==
            IF i = lo - 1 THEN <<>> ELSE F[i - 1] \o RowParams(list[i], DataKeys)
    IN F[hi]

\* the rows written in the VALUES part of a statement
RowsIn(stmt) == Cardinality({i \in 5..Len(stmt.sql) : stmt.sql[i] = "("})

\* C28: DoBatchInsert on n >= 1 rows with batch size b (the default 10 when
\* b <= 0 or not given) issues the statements in list order, statement j
\* holding rows (j-1)b+1 .. min(jb, n) and exactly the values of these rows
\* that are not Raw as its arguments; ceil(n/b) statements when none fails;
\* the first failing statement is the last one issued and its error is
\* returned.
C28_Batching ==
    Batched /\ composed.n >= 1 =>
        /\ BatchSize = (IF Len(composed.batch) > 0 /\ composed.batch[1] > 0
                        THEN composed.batch[1] ELSE 10)
        /\ Len(composed.stmts) <= Issued
        /\ composed.pc = "done" => Len(composed.stmts) = Issued
        /\ Failed => composed.pc = "done"
        /\ \A j \in 1..Len(composed.stmts) :
              /\ RowsIn(composed.stmts[j]) = LastRow(j) - FirstRow(j) + 1
              /\ RowsIn(composed.stmts[j]) <= BatchSize
              /\ composed.stmts[j].args = BoundValues(FirstRow(j), LastRow(j))
        /\ (composed.err = Nil) = ~Failed
        /\ Failed => composed.err = IF composed.failure = "exec"
                                    THEN formatError(ErrExec, "INSERT")
                                    ELSE ErrRowsAffected

\* eleven rows under the default size went out as ten rows and one row, for
\* which the driver reported 3 rows in all; or, with size 2, the second
\* statement failed
C28_Witness ==
    /\ Batched
    /\ composed.pc = "done"
    /\ composed.n = 11
    /\ composed.pattern = "odd"
    /\ \/ /\ composed.batch = <<0>>
          /\ ~Failed
          /\ composed.affected = 3
          /\ Len(composed.stmts) = 2
          /\ Len(composed.stmts[2].args) = 1
       \/ /\ composed.batch = <<2>>
          /\ composed.failed = 2
          /\ Len(composed.stmts) = 2
          /\ composed.err # Nil

----------------------------------------------------------------------------
(* Results onto targets: claims *)

\* the call mapped the rows onto a list: Result.Structs, Model.Structs, or
\* Model.Scan on a pointer to a slice, after a query that succeeded
OntoList ==
    /\ mapped.op \in {"Result.Structs", "Model.Structs", "Model.Scan"}
    /\ mapped.queryOk
    /\ mapped.before.kind = "slice"

\* the call mapped one record onto a *struct or a **struct
OntoStruct ==
    /\ mapped.op \in {"Record.Struct", "Model.Struct", "Model.Scan"}
    /\ mapped.queryOk
    /\ mapped.before.kind \in {"struct", "ptrptr"}

NoRecord == mapped.rows = <<>> \/ mapped.rows = <<EmptyRecord>>

\* C25: zero rows onto a list target give no error and leave the target as
\* it was, for every list, also one that holds struct values or struct
\* pointers.
C25_ZeroRowsOntoList ==
    OntoList /\ mapped.rows = <<>> =>
        mapped.err = Nil /\ mapped.after = mapped.before

\* C26: an empty record onto a *struct or **struct target gives ErrNoRows
\* itself, not an annotated error, and leaves the target as it was.
C26_ZeroRowsOntoStruct ==
    OntoStruct /\ NoRecord =>
        mapped.err = ErrNoRows /\ mapped.after = mapped.before

\* C27: when mapping onto a list fails, for the shape of the target or for
\* a row, an error is returned and the target is as it was before; when it
\* succeeds with rows, the target holds one element per row, in order.
C27_NoPartialOutput ==
    /\ (mapped.op \in {"Result.Structs", "Model.Structs"} \/ OntoList)
          /\ mapped.err # Nil => mapped.after = mapped.before
    /\ OntoList /\ mapped.err = Nil /\ mapped.rows # <<>> =>
          mapped.after.items = [i \in 1..Len(mapped.rows) |-> mapped.rows[i].v]

\* the second of two rows failed after the first was converted, onto a list
\* that held an element
C27_Witness ==
    /\ mapped.op = "Result.Structs"
    /\ mapped.rows = <<Row("r1", TRUE), Row("bad", FALSE)>>
    /\ mapped.before = SliceTarget(TRUE, <<"old1">>)
    /\ mapped.err = ErrElement(ErrConvert)
    /\ mapped.after = mapped.before

----------------------------------------------------------------------------
(* Begin: the context of the transaction *)

\* Begin returned a handle while a transaction timeout is configured
BeganWithTimeout ==
    /\ sent.kind = "begin"
    /\ sent.pc = "done"
    /\ sent.err = Nil
    /\ core.timeouts["Tran"] > 0

\* C29: when TranTimeout > 0 and Begin returns a handle without error, the
\* context the transaction was opened under has not been cancelled by Begin
\* itself when Begin returns.
C29_ContextAlive == BeganWithTimeout => ~sent.cancelled

----------------------------------------------------------------------------
(* The accessors of the configuration: claims *)

Accessors == {"GetConfig", "GetDefaultGroup", "IsConfigured"}

\* Instance(g), an accessor and Instance(g) again returned as the calls k,
\* k+1 and k+2, the first one with an object, and no mutation ran from the
\* start of the first to the return of the last
AroundAccessor(k) ==
    /\ access.calls[k].op = "Instance"
    /\ access.calls[k].out # NilDB
    /\ access.calls[k + 1].op \in Accessors
    /\ access.calls[k + 2].op = "Instance"
    /\ access.calls[k + 2].arg = access.calls[k].arg
    /\ \A j \in k..(k + 2) :
          access.calls[j].calm /\ access.calls[j].ver = access.calls[k].ver

\* C30: GetConfig, GetDefaultGroup and IsConfigured leave the configuration
\* and the instances map as they were, so Instance(g), an accessor and
\* Instance(g) again, with no mutation in between, return the same DB object
\* twice.
C30_AccessorsReadOnly ==
    /\ \A k \in 1..Len(access.calls) :
          access.calls[k].op \in Accessors => ~access.calls[k].changed
    /\ \A k \in 1..(Len(access.calls) - 2) :
          AroundAccessor(k) => access.calls[k + 2].out = access.calls[k].out
====
